---- MODULE Spec2Model ----
(***************************************************************************)
(* Analytics session/event model of the finding-me repository.            *)
(*                                                                         *)
(* Three recorder implementations live in the source and are modelled     *)
(* side by side, each with its own tables:                                 *)
(*   - the track route (getOrCreateSession / GET / POST) over the tables   *)
(*     sessions, pageviews, events;                                        *)
(*   - the D1-backed Analytics class (handleTracking) over the tables      *)
(*     d1_sessions, page_views, d1_events;                                 *)
(*   - the getDB()-backed Analytics class (getSession / createSession /    *)
(*     trackEvent / handleTracking) over lib_sessions, lib_events.         *)
(*                                                                         *)
(* Time is the wall clock in whole seconds (variable now), the precision   *)
(* of SQL datetime('now') and CURRENT_TIMESTAMP.  SQL datetime comparisons *)
(* are comparisons of second stamps; millisecond values (Date.now(), the   *)
(* JULIANDAY differences) are second stamps times MS_PER_S.                *)
(* crypto.randomUUID() is modelled as a fresh token: the next integer      *)
(* never handed out before.                                                *)
(***************************************************************************)
EXTENDS Integers, Sequences, FiniteSets, TLC

VARIABLES
    now,          \* wall clock, seconds
    minted,       \* number of tokens handed out by crypto.randomUUID()
    reqs,         \* number of requests handled so far
    sessions,     \* track route: session_id -> row
    pageviews,    \* track route: sequence of rows (index = AUTOINCREMENT id)
    events,       \* track route: sequence of rows
    d1_sessions,  \* analytics-d1: session_id -> row
    page_views,   \* analytics-d1: sequence of rows
    d1_events,    \* analytics-d1: sequence of rows
    lib_sessions, \* lib/analytics: session_id -> row
    lib_events,   \* lib/analytics: sequence of rows
    lastReq,      \* the request handled by the latest step
    lastResp,     \* the response it produced
    storage,      \* useAnalytics: localStorage (session id, session start)
    hook,         \* useAnalytics: the refs and subscriptions of the mounted hook
    sent,         \* useAnalytics: the messages sent during the current page load
    inflight      \* request number -> the handler run serving it (position, locals)

vars == <<now, minted, reqs, sessions, pageviews, events, d1_sessions,
          page_views, d1_events, lib_sessions, lib_events, lastReq, lastResp,
          storage, hook, sent, inflight>>

trackTables == <<sessions, pageviews, events>>
d1Tables == <<d1_sessions, page_views, d1_events>>
libTables == <<lib_sessions, lib_events>>
clientVars == <<storage, hook, sent>>

(***************************************************************************)
(* Bounds of the model.                                                    *)
(***************************************************************************)
MaxReqs == 3

(***************************************************************************)
(* Program constants.                                                      *)
(***************************************************************************)
SESSION_WINDOW == 1800
RETURNING_WINDOW == 2592000
LIB_SESSION_WINDOW == 86400
MS_PER_S == 1000

(***************************************************************************)
(* Inputs.  A token is an integer: NoToken is the absent / empty value     *)
(* (falsy in the code), 1..MaxReqs are the tokens randomUUID can mint, and *)
(* ForgedToken is a token string no session was ever stored under.         *)
(***************************************************************************)
NoToken == 0
ForgedToken == MaxReqs + 1
NULL == -1

\* A user-agent string, as the set of marker substrings it includes.
UserAgents == { {"Chrome", "Safari", "Mac OS"}, {"Firefox", "Mobile", "Android", "Linux"} }
PageParams == {"/home"}
EventNames == {"scroll", "user_engaged"}

\* The instants at which requests arrive, per recorder: 29 and 31 minutes and
\* one hour after the first for the track route, seconds apart for the D1
\* class, 31 minutes and a day later for the lib class.
TrackInstants == {0, 1740, 1860, 3600}
D1Instants == {0, 5, 10}
LibInstants == {0, 1860, 86460}

Or(a, b) == IF a # NoToken THEN a ELSE b

(***************************************************************************)
(* Track route: user-agent parsing.                                        *)
(***************************************************************************)
getBrowser(ua) ==
    IF "Firefox" \in ua THEN "Firefox"
    ELSE IF "Chrome" \in ua THEN "Chrome"
    ELSE IF "Safari" \in ua THEN "Safari"
    ELSE IF "Edge" \in ua THEN "Edge"
    ELSE IF "Opera" \in ua THEN "Opera"
    ELSE "Unknown"

getOS(ua) ==
    IF "Windows" \in ua THEN "Windows"
    ELSE IF "Mac OS" \in ua THEN "macOS"
    ELSE IF "Linux" \in ua THEN "Linux"
    ELSE IF "Android" \in ua THEN "Android"
    ELSE IF "iOS" \in ua THEN "iOS"
    ELSE "Unknown"

getDevice(ua) == IF "Mobile" \in ua THEN "mobile" ELSE "desktop"

(***************************************************************************)
(* Track route: the statements of getOrCreateSession.                      *)
(***************************************************************************)
\* SELECT ... WHERE session_id = ? AND start_time > datetime('now','-30 minutes')
SessionWindowOpen(start, t) == start > t - SESSION_WINDOW

existingSession(S, sessionId, t) ==
    /\ sessionId # NoToken
    /\ sessionId \in DOMAIN S
    /\ SessionWindowOpen(S[sessionId].start_time, t)

\* Mutant of ReusedRow: the UPDATE leaves is_bounce as it was.
ReusedRow_KeepsBounce(row, t) ==
    [row EXCEPT !.page_count = @ + 1,
                !.end_time = t,
                !.total_time_ms = (t - row.start_time) * MS_PER_S]

\* UPDATE sessions SET page_count = page_count + 1, is_bounce = 0, ...
ReusedRow(row, t) ==
    [row EXCEPT !.page_count = @ + 1,
                !.is_bounce = FALSE,
                !.end_time = t,
                !.total_time_ms = (t - row.start_time) * MS_PER_S]

UpdateSessionReuse(S, sessionId, t) ==
    [S EXCEPT ![sessionId] = ReusedRow(S[sessionId], t)]

\* SELECT COUNT(*) FROM sessions WHERE start_time > datetime('now','-30 days') AND (...)
previousSessions(S, sessionId, browser, device, t) ==
    LET recent(x) == S[x].start_time > t - RETURNING_WINDOW
        sameFp(x) == S[x].browser = browser /\ S[x].device = device
    IN Cardinality({ x \in DOMAIN S :
            /\ recent(x)
            /\ \/ x = sessionId
               \/ sameFp(x)
               \/ \E y \in DOMAIN S : sameFp(y) /\ recent(y) })

\* INSERT INTO sessions (...) VALUES (?, datetime('now'), datetime('now'), 1, 1, ?, ..., 0)
NewSessionRow(isReturning, ua, t) ==
    [start_time |-> t, end_time |-> t, page_count |-> 1, is_bounce |-> TRUE,
     is_returning |-> isReturning, device |-> getDevice(ua),
     browser |-> getBrowser(ua), os |-> getOS(ua), total_time_ms |-> 0]

InsertSession(S, id, row) ==
    [x \in DOMAIN S \cup {id} |-> IF x = id THEN row ELSE S[x]]

\* The resolver as a whole: the session table it leaves and the id it returns.
getOrCreateSession(S, query, cookie, ua, t, fresh) ==
    LET sessionId == Or(query, cookie) IN
    IF existingSession(S, sessionId, t)
    THEN [sessions |-> UpdateSessionReuse(S, sessionId, t), id |-> sessionId]
    ELSE LET isReturning ==
                 previousSessions(S, sessionId, getBrowser(ua), getDevice(ua), t) > 0
         IN [sessions |-> InsertSession(S, fresh, NewSessionRow(isReturning, ua, t)),
             id |-> fresh]

(***************************************************************************)
(* Track route: the statements of GET and POST.                            *)
(***************************************************************************)
pagePathOf(page) == IF page = "" THEN "/" ELSE page

\* entry_page bind value: !request.cookies.get('session_id')?.value ? 1 : 0
EntryFlag(cookie) == cookie = NoToken

\* INSERT INTO pageviews (...) VALUES (?, ?, datetime('now'), ?, 1, 0, 0)
NewPageviewRow(sid, pagePath, cookie, t) ==
    [session_id |-> sid, page_path |-> pagePath, timestamp |-> t,
     entry_page |-> EntryFlag(cookie), exit_page |-> TRUE,
     time_on_page_ms |-> 0, max_scroll_percentage |-> 0]

\* UPDATE pageviews SET exit_page = 0 WHERE session_id = ? AND exit_page = 1
ClearExit(P, sid) ==
    [i \in DOMAIN P |->
        IF P[i].session_id = sid /\ P[i].exit_page
        THEN [P[i] EXCEPT !.exit_page = FALSE] ELSE P[i]]

\* UPDATE sessions SET is_bounce = 0, end_time = ..., total_time_ms = ...
EngagedRow(row, t) ==
    [row EXCEPT !.is_bounce = FALSE,
                !.end_time = t,
                !.total_time_ms = (t - row.start_time) * MS_PER_S]

\* UPDATE sessions SET end_time = ..., total_time_ms = ...
TouchedRow(row, t) ==
    [row EXCEPT !.end_time = t,
                !.total_time_ms = (t - row.start_time) * MS_PER_S]

\* data.event_name.startsWith('scroll'), over the event names of the model.
startsWithScroll(name) == name \in {"scroll", "scroll_depth"}

eventTypeOf(name) ==
    IF name = "click" THEN "click"
    ELSE IF startsWithScroll(name) THEN "scroll"
    ELSE "engagement"

\* The event_data a client sends with an event: the clicked element and its
\* target for a click, nothing the model reads for the other events.
EventDataOf(name) ==
    IF name = "click" THEN [element_type |-> "cta", target_url |-> "/signup"]
    ELSE [element_type |-> "null", target_url |-> "null"]

\* INSERT INTO events (event_name, event_data, page_path, session_id, event_type, timestamp)
NewEventRow(sid, data, pagePath, t) ==
    [session_id |-> sid, event_name |-> data.event_name,
     event_data |-> data.event_data, event_type |-> eventTypeOf(data.event_name),
     page_path |-> pagePath, timestamp |-> t]

\* useAnalytics: no document is loaded, no hook instance exists.
Unmounted ==
    [loaded |-> FALSE, pathname |-> "", hasTrackedInitialView |-> FALSE,
     isEngaged |-> FALSE, maxScrollDepth |-> 0, interactions |-> 0, startTime |-> 0,
     bounceTimeout |-> NULL, listening |-> FALSE, fidObserving |-> FALSE, lastFired |-> 0,
     pendingMetrics |-> {}, timeoutId |-> NULL, debouncedArgs |-> {}, debouncedAt |-> NULL,
     observed |-> {}]

Init ==
    /\ now = 0
    /\ minted = 0
    /\ reqs = 0
    /\ sessions = <<>>
    /\ pageviews = <<>>
    /\ events = <<>>
    /\ d1_sessions = <<>>
    /\ page_views = <<>>
    /\ d1_events = <<>>
    /\ lib_sessions = <<>>
    /\ lib_events = <<>>
    /\ lastReq = [op |-> "none"]
    /\ lastResp = [status |-> 0]
    /\ storage = [sessionId |-> NoToken, sessionStart |-> NULL]
    /\ hook = Unmounted
    /\ sent = <<>>
    /\ inflight = <<>>

\* Time passes between requests.
Advance(t) ==
    /\ t > now
    /\ now' = t
    /\ UNCHANGED <<minted, reqs, trackTables, d1Tables, libTables, lastReq, lastResp, clientVars, inflight>>

\* Tokens a client can present: absent, forged, or any token minted so far.
Presentable == {NoToken, ForgedToken} \cup (1 .. minted)

\* The (query, cookie) pairs of a request.  The code reads the id from
\* query || cookie and, separately, whether a cookie is present; a request
\* carries its token in one of the two places.
Carriers == { qc \in Presentable \X Presentable : qc[1] = NoToken \/ qc[2] = NoToken }

\* GET /api/analytics/track: record a page-view.  The handler never reads the
\* X-No-Track header (noTrack); it is part of the request all the same.
TrackGET(query, cookie, page, ua, noTrack) ==
    /\ reqs < MaxReqs
    /\ LET r == getOrCreateSession(sessions, query, cookie, ua, now, minted + 1)
           sid == r.id
           created == sid = minted + 1
           P1 == Append(pageviews, NewPageviewRow(sid, pagePathOf(page), cookie, now))
       IN /\ minted' = IF created THEN minted + 1 ELSE minted
          /\ IF cookie # NoToken
             THEN /\ pageviews' = ClearExit(P1, sid)
                  /\ sessions' = [r.sessions EXCEPT ![sid] = EngagedRow(@, now)]
             ELSE /\ pageviews' = P1
                  /\ sessions' = r.sessions
          /\ lastReq' = [op |-> "GET", query |-> query, cookie |-> cookie,
                         page |-> page, noTrack |-> noTrack]
          /\ lastResp' = [status |-> 200, session_id |-> sid,
                          is_new_session |-> (cookie = NoToken), cookie |-> sid]
    /\ reqs' = reqs + 1
    /\ UNCHANGED <<now, events, d1Tables, libTables, clientVars, inflight>>

\* POST /api/analytics/track: record a named event.
TrackPOST(query, cookie, page, ua, noTrack, name) ==
    LET data == [event_name |-> name, event_data |-> EventDataOf(name)] IN
    /\ reqs < MaxReqs
    /\ lastReq' = [op |-> "POST", query |-> query, cookie |-> cookie,
                   page |-> page, noTrack |-> noTrack, event_name |-> name]
    /\ IF noTrack
       THEN /\ lastResp' = [status |-> 200, session_id |-> NoToken,
                            is_new_session |-> FALSE, cookie |-> NoToken]
            /\ UNCHANGED <<minted, sessions, events>>
       ELSE LET r == getOrCreateSession(sessions, query, cookie, ua, now, minted + 1)
                sid == r.id
            IN /\ minted' = IF sid = minted + 1 THEN minted + 1 ELSE minted
               /\ events' = Append(events, NewEventRow(sid, data, pagePathOf(page), now))
               /\ sessions' = [r.sessions EXCEPT ![sid] = TouchedRow(@, now)]
               /\ lastResp' = [status |-> 200, session_id |-> sid,
                               is_new_session |-> FALSE, cookie |-> sid]
    /\ reqs' = reqs + 1
    /\ UNCHANGED <<now, pageviews, d1Tables, libTables, clientVars, inflight>>

NextTrack ==
    \/ \E qc \in Carriers, p \in PageParams, ua \in UserAgents, nt \in BOOLEAN :
          TrackGET(qc[1], qc[2], p, ua, nt)
    \/ \E qc \in Carriers, p \in PageParams, ua \in UserAgents,
          nt \in BOOLEAN, e \in EventNames :
          TrackPOST(qc[1], qc[2], p, ua, nt, e)
    \/ \E t \in TrackInstants : Advance(t)

SpecTrack == Init /\ [][NextTrack]_vars

\* What the catch block of GET and POST answers.
TrackFailure == [status |-> 500, session_id |-> NoToken,
                 is_new_session |-> FALSE, cookie |-> NoToken]

\* The statements of GET / POST at which a storage failure is modelled: a
\* statement of the resolver, or one of the statements after it.
GETFailPoints == {"resolve", "insert_pageview", "clear_exit", "update_session"}
POSTFailPoints == {"resolve", "insert_event", "update_session"}

\* GET when the storage statement failAt rejects: the statements before it
\* have been applied (each is its own implicit transaction), the catch block
\* answers 500.
TrackGETFails(query, cookie, page, ua, failAt) ==
    /\ reqs < MaxReqs
    /\ reqs' = reqs + 1
    /\ lastReq' = [op |-> "GET", query |-> query, cookie |-> cookie,
                   page |-> page, noTrack |-> FALSE]
    /\ lastResp' = TrackFailure
    /\ LET r == getOrCreateSession(sessions, query, cookie, ua, now, minted + 1)
           sid == r.id
           P1 == Append(pageviews, NewPageviewRow(sid, pagePathOf(page), cookie, now))
       IN CASE failAt = "resolve" ->
                  UNCHANGED <<minted, sessions, pageviews>>
            [] failAt = "insert_pageview" ->
                  /\ minted' = IF sid = minted + 1 THEN minted + 1 ELSE minted
                  /\ sessions' = r.sessions
                  /\ UNCHANGED pageviews
            [] failAt = "clear_exit" ->
                  /\ cookie # NoToken
                  /\ minted' = IF sid = minted + 1 THEN minted + 1 ELSE minted
                  /\ sessions' = r.sessions
                  /\ pageviews' = P1
            [] failAt = "update_session" ->
                  /\ cookie # NoToken
                  /\ minted' = IF sid = minted + 1 THEN minted + 1 ELSE minted
                  /\ sessions' = r.sessions
                  /\ pageviews' = ClearExit(P1, sid)
    /\ UNCHANGED <<now, events, d1Tables, libTables, clientVars, inflight>>

\* POST when the storage statement failAt rejects.
TrackPOSTFails(query, cookie, page, ua, name, failAt) ==
    /\ reqs < MaxReqs
    /\ reqs' = reqs + 1
    /\ lastReq' = [op |-> "POST", query |-> query, cookie |-> cookie,
                   page |-> page, noTrack |-> FALSE, event_name |-> name]
    /\ lastResp' = TrackFailure
    /\ LET r == getOrCreateSession(sessions, query, cookie, ua, now, minted + 1)
           sid == r.id
       IN CASE failAt = "resolve" ->
                  UNCHANGED <<minted, sessions, events>>
            [] failAt = "insert_event" ->
                  /\ minted' = IF sid = minted + 1 THEN minted + 1 ELSE minted
                  /\ sessions' = r.sessions
                  /\ UNCHANGED events
            [] failAt = "update_session" ->
                  /\ minted' = IF sid = minted + 1 THEN minted + 1 ELSE minted
                  /\ sessions' = r.sessions
                  /\ events' = Append(events,
                         NewEventRow(sid, [event_name |-> name,
                                           event_data |-> EventDataOf(name)],
                                     pagePathOf(page), now))
    /\ UNCHANGED <<now, pageviews, d1Tables, libTables, clientVars, inflight>>

\* The track route over a storage that can reject a statement.
NextTrackFaulty ==
    \/ \E qc \in Carriers, ua \in UserAgents : TrackGET(qc[1], qc[2], "/home", ua, FALSE)
    \/ \E qc \in Carriers, ua \in UserAgents :
          TrackPOST(qc[1], qc[2], "/home", ua, FALSE, "scroll")
    \/ \E qc \in Carriers, ua \in UserAgents, failAt \in GETFailPoints :
          TrackGETFails(qc[1], qc[2], "/home", ua, failAt)
    \/ \E qc \in Carriers, ua \in UserAgents, failAt \in POSTFailPoints :
          TrackPOSTFails(qc[1], qc[2], "/home", ua, "scroll", failAt)
    \/ \E t \in TrackInstants : Advance(t)

SpecTrackFaulty == Init /\ [][NextTrackFaulty]_vars

(***************************************************************************)
(* Metrics route: GET /api/analytics/metrics over the track-route tables.  *)
(* A rate ROUND(x * 100, 2) is held as an integer number of hundredths of  *)
(* a percent; SQL NULL is NULL.                                            *)
(***************************************************************************)
SECONDS_PER_DAY == 86400
HUNDREDTHS == 100
PERCENT == 100

\* period === '24h' ? 1 : period === '7d' ? 7 : 30, after period = param || '7d'
daysToSubtract(period) ==
    LET p == IF period = "" THEN "7d" ELSE period
    IN IF p = "24h" THEN 1 ELSE IF p = "7d" THEN 7 ELSE 30

\* col > datetime('now', '-N days')
InWindow(stamp, t, days) == stamp > t - days * SECONDS_PER_DAY

\* ROUND(CAST(num AS FLOAT) / NULLIF(den, 0) * 100, 2): NULL when either side
\* is NULL or the denominator is 0.
RatePct(num, den) ==
    IF num = NULL \/ den = NULL \/ den = 0 THEN NULL
    ELSE (2 * num * PERCENT * HUNDREDTHS + den) \div (2 * den)

\* SUM(CASE WHEN cond THEN 1 ELSE 0 END) over the rows W: NULL over no rows.
CountWhere(W, flagged) == IF W = {} THEN NULL ELSE Cardinality(flagged)

\* Mutant of retention: a session counts as completed once the clock has
\* passed its start.
retention_CompletedByClock(S, t, days) ==
    LET W == { x \in DOMAIN S : /\ InWindow(S[x].start_time, t, days)
                                /\ t > S[x].start_time }
        total_sessions == Cardinality(W)
        bounced_sessions == CountWhere(W, { x \in W : S[x].is_bounce })
        returning_sessions == CountWhere(W, { x \in W : S[x].is_returning })
    IN [total_sessions |-> total_sessions,
        bounce_rate |-> RatePct(bounced_sessions, total_sessions),
        returning_visitor_rate |-> RatePct(returning_sessions, total_sessions)]

\* The retention query: one row of aggregates over the completed sessions of
\* the window.
retention(S, t, days) ==
    LET W == { x \in DOMAIN S : /\ InWindow(S[x].start_time, t, days)
                                /\ S[x].end_time > S[x].start_time }
        total_sessions == Cardinality(W)
        bounced_sessions == CountWhere(W, { x \in W : S[x].is_bounce })
        returning_sessions == CountWhere(W, { x \in W : S[x].is_returning })
    IN [total_sessions |-> total_sessions,
        bounce_rate |-> RatePct(bounced_sessions, total_sessions),
        returning_visitor_rate |-> RatePct(returning_sessions, total_sessions)]

\* The groups of click_stats: (page_path, element, href) of the click events
\* of the window.
ClickGroups(E, t, days) ==
    { [page_path |-> E[i].page_path, element |-> E[i].event_data.element_type,
       href |-> E[i].event_data.target_url] :
        i \in { j \in DOMAIN E : E[j].event_name = "click" /\ InWindow(E[j].timestamp, t, days) } }

\* page_stats.views for a path: COUNT(DISTINCT p.session_id); NULL when the
\* LEFT JOIN finds no page_stats row for the path.
ViewsOf(P, path, t, days) ==
    LET rows == { i \in DOMAIN P : P[i].page_path = path /\ InWindow(P[i].timestamp, t, days) }
    IN IF rows = {} THEN NULL ELSE Cardinality({ P[i].session_id : i \in rows })

\* JavaScript `x || 0` on a number or null.
OrZero(x) == IF x = NULL THEN 0 ELSE x

\* The ctr block of the response, one record per click group.
ctrMetrics(E, P, t, days) ==
    { LET clicks == Cardinality({ i \in DOMAIN E :
                        /\ E[i].event_name = "click"
                        /\ InWindow(E[i].timestamp, t, days)
                        /\ E[i].page_path = g.page_path
                        /\ E[i].event_data.element_type = g.element
                        /\ E[i].event_data.target_url = g.href })
          views == ViewsOf(P, g.page_path, t, days)
      IN [page_path |-> g.page_path, element |-> g.element, href |-> g.href,
          clicks |-> clicks, views |-> OrZero(views),
          ctr |-> OrZero(RatePct(clicks, views))] : g \in ClickGroups(E, t, days) }

\* The arrival time of the previous request when it was a metrics request
\* with the same selector, NULL otherwise.
PreviousAsk(period) ==
    IF lastReq.op = "metrics" /\ lastReq.period = period THEN lastReq.at ELSE NULL

\* Mutant of MetricsGET: the read also stamps end_time on every session.
MetricsGET_TouchesSessions(period) ==
    /\ lastReq' = [op |-> "metrics", period |-> period, at |-> now,
                   prev |-> PreviousAsk(period)]
    /\ lastResp' = [status |-> 200,
                    retention |-> retention(sessions, now, daysToSubtract(period)),
                    ctr |-> ctrMetrics(events, pageviews, now, daysToSubtract(period))]
    /\ sessions' = [x \in DOMAIN sessions |-> TouchedRow(sessions[x], now)]
    /\ UNCHANGED <<now, minted, reqs, pageviews, events, d1Tables, libTables, clientVars, inflight>>

\* GET /api/analytics/metrics?period=...: reads only.
MetricsGET(period) ==
    /\ lastReq' = [op |-> "metrics", period |-> period, at |-> now,
                   prev |-> PreviousAsk(period)]
    /\ lastResp' = [status |-> 200,
                    retention |-> retention(sessions, now, daysToSubtract(period)),
                    ctr |-> ctrMetrics(events, pageviews, now, daysToSubtract(period))]
    /\ UNCHANGED <<now, minted, reqs, trackTables, d1Tables, libTables, clientVars, inflight>>

\* The period selectors a dashboard sends; "" is a request without one.
Periods == {"", "24h", "7d", "30d"}

\* Arrival instants of the metrics model: a minute and two days apart.
MetricsInstants == {0, 60, 172800}

MetricsPages == {"/home", "/about"}
MetricsUA == {"Chrome", "Safari", "Mac OS"}

NextMetrics ==
    \/ \E qc \in Carriers, p \in MetricsPages : TrackGET(qc[1], qc[2], p, MetricsUA, FALSE)
    \/ \E qc \in Carriers, p \in MetricsPages :
          TrackPOST(qc[1], qc[2], p, MetricsUA, FALSE, "click")
    \/ \E period \in Periods : MetricsGET(period)
    \/ \E t \in MetricsInstants : Advance(t)

SpecMetrics == Init /\ [][NextMetrics]_vars

(***************************************************************************)
(* Track route, POST-only revision: its resolver fingerprints a visitor by *)
(* browser, device class and operating system.                             *)
(***************************************************************************)
\* Mutant of previousSessionsV2: the presented token is not compared.
previousSessionsV2_FingerprintOnly(S, sessionId, browser, device, os, t) ==
    Cardinality({ x \in DOMAIN S :
        /\ S[x].start_time > t - RETURNING_WINDOW
        /\ S[x].browser = browser /\ S[x].device = device /\ S[x].os = os })

\* SELECT COUNT(*) FROM sessions s WHERE start_time > datetime('now','-30 days')
\*   AND (s.session_id = ? OR (s.browser = ? AND s.device = ? AND s.os = ?))
previousSessionsV2(S, sessionId, browser, device, os, t) ==
    Cardinality({ x \in DOMAIN S :
        /\ S[x].start_time > t - RETURNING_WINDOW
        /\ \/ x = sessionId
           \/ S[x].browser = browser /\ S[x].device = device /\ S[x].os = os })

getOrCreateSessionV2(S, query, cookie, ua, t, fresh) ==
    LET sessionId == Or(query, cookie) IN
    IF existingSession(S, sessionId, t)
    THEN [sessions |-> UpdateSessionReuse(S, sessionId, t), id |-> sessionId]
    ELSE LET isReturning ==
                 previousSessionsV2(S, sessionId, getBrowser(ua), getDevice(ua),
                                    getOS(ua), t) > 0
         IN [sessions |-> InsertSession(S, fresh, NewSessionRow(isReturning, ua, t)),
             id |-> fresh]

eventTypeOfV2(name) ==
    IF name = "click" THEN "click"
    ELSE IF name = "scroll" THEN "scroll"
    ELSE IF name = "section_view" THEN "section_view"
    ELSE "engagement"

\* POST /api/analytics/track of the POST-only revision.
TrackPOSTV2(query, cookie, page, ua, noTrack, name) ==
    /\ reqs < MaxReqs
    /\ lastReq' = [op |-> "POST2", query |-> query, cookie |-> cookie,
                   page |-> page, noTrack |-> noTrack, event_name |-> name]
    /\ IF noTrack
       THEN /\ lastResp' = [status |-> 200, session_id |-> NoToken,
                            is_new_session |-> FALSE, cookie |-> NoToken]
            /\ UNCHANGED <<minted, sessions, events>>
       ELSE LET r == getOrCreateSessionV2(sessions, query, cookie, ua, now, minted + 1)
                sid == r.id
            IN /\ minted' = IF sid = minted + 1 THEN minted + 1 ELSE minted
               /\ events' = Append(events,
                      [session_id |-> sid, event_name |-> name,
                       event_data |-> EventDataOf(name),
                       event_type |-> eventTypeOfV2(name),
                       page_path |-> pagePathOf(page), timestamp |-> now])
               /\ sessions' = [r.sessions EXCEPT ![sid] = TouchedRow(@, now)]
               /\ lastResp' = [status |-> 200, session_id |-> sid,
                               is_new_session |-> FALSE, cookie |-> sid]
    /\ reqs' = reqs + 1
    /\ UNCHANGED <<now, pageviews, d1Tables, libTables, clientVars, inflight>>

\* Visitors for the returning-visitor classification: the two of UserAgents
\* and one that shares browser and device class with the first but runs
\* another operating system.
ReturningUserAgents == UserAgents \cup { {"Chrome", "Safari", "Windows"} }

\* Arrival instants: 31 minutes after the first request, and more than 30
\* days after both.
ReturningInstants == {0, 1860, 2595000}

\* Both revisions of the route over the same tables.
NextReturning ==
    \/ \E qc \in Carriers, ua \in ReturningUserAgents :
          TrackGET(qc[1], qc[2], "/home", ua, FALSE)
    \/ \E qc \in Carriers, ua \in ReturningUserAgents, nt \in BOOLEAN :
          TrackPOSTV2(qc[1], qc[2], "/home", ua, nt, "section_view")
    \/ \E t \in ReturningInstants : Advance(t)

SpecReturning == Init /\ [][NextReturning]_vars

(***************************************************************************)
(* analytics-d1: Analytics.handleTracking.                                 *)
(***************************************************************************)
\* JavaScript `x || null` on a number: undefined and 0 both give null.
OrNull(x) == IF x = 0 THEN NULL ELSE x

\* JavaScript `s || null` on a string.
StrOrNull(s) == IF s = "" THEN "null" ELSE s

\* data.scrollDepth ? parseInt(data.scrollDepth) : null
parseScroll(s) == IF s = "" THEN NULL ELSE IF s = "75" THEN 75 ELSE 25

\* const timestamp = data.timestamp || Date.now()
timestampOf(ts, t) == IF ts # 0 THEN ts ELSE t * MS_PER_S

PerfCols == {"ttfb", "fcp", "lcp", "cls", "fid"}
NoPerf == [c \in PerfCols |-> 0]

\* SELECT id FROM page_views WHERE session_id = ? ORDER BY timestamp DESC LIMIT 1:
\* the candidates; rows with equal timestamps are not ordered by the query.
LatestPageViews(PV, sid) ==
    { i \in DOMAIN PV :
        /\ PV[i].session_id = sid
        /\ \A j \in DOMAIN PV : PV[j].session_id = sid => PV[j].timestamp <= PV[i].timestamp }

\* The result of the subquery: a candidate, or 0 when no row matches.
LatestPicks(PV, sid) ==
    IF LatestPageViews(PV, sid) = {} THEN {0} ELSE LatestPageViews(PV, sid)

\* UPDATE page_views SET time_spent = ? WHERE session_id = ? AND id = (latest)
SetTimeSpent(PV, id, timeSpent) ==
    [i \in DOMAIN PV |-> IF i = id THEN [PV[i] EXCEPT !.time_spent = timeSpent] ELSE PV[i]]

\* COALESCE(?, col): the bound value when it is not null, else the stored one.
Coalesce(bound, stored) == IF bound # NULL THEN bound ELSE stored

\* UPDATE page_views SET ttfb = COALESCE(?, ttfb), ... WHERE ... id = (latest)
BackfillPerf(PV, id, perf) ==
    [i \in DOMAIN PV |->
        IF i = id
        THEN [PV[i] EXCEPT !.perf = [c \in PerfCols |-> Coalesce(OrNull(perf[c]), PV[i].perf[c])]]
        ELSE PV[i]]

\* INSERT INTO page_views (...) VALUES (?, ?, ?, ?, ?, ?, ?, ?, ?, ?)
D1PageViewRow(data, timestamp) ==
    [session_id |-> data.sessionId, page |-> data.page, timestamp |-> timestamp,
     scroll_depth |-> parseScroll(data.scrollDepth),
     time_spent |-> OrNull(data.timeSpent),
     perf |-> [c \in PerfCols |-> OrNull(data.perf[c])]]

\* INSERT INTO events (session_id, event_name, element, href, timestamp)
D1EventRow(data, timestamp) ==
    [session_id |-> data.sessionId, event_name |-> data.event,
     element |-> StrOrNull(data.element), href |-> StrOrNull(data.href),
     timestamp |-> timestamp]

\* INSERT INTO sessions (session_id, start_time, ..., device_type, ...)
D1SessionRow(data, timestamp) ==
    [start_time |-> timestamp, end_time |-> NULL,
     device_type |-> StrOrNull(data.deviceType)]

\* UPDATE sessions SET end_time = ? WHERE session_id = ?
SetEndTime(S, sid, timestamp) ==
    [x \in DOMAIN S |-> IF x = sid THEN [S[x] EXCEPT !.end_time = timestamp] ELSE S[x]]

\* Mutant of InvalidSession: the existence of the session is not checked.
InvalidSession_Unchecked(existing, event) == FALSE

\* Mutant of InvalidSession: only requests that name an event are checked.
InvalidSession_NamedEventsOnly(existing, event) ==
    ~existing /\ event # "session_start" /\ event # ""

\* if (!existingSession && data.event !== 'session_start') throw 'Invalid session'
InvalidSession(existing, event) == ~existing /\ event # "session_start"

\* error.message.startsWith('Missing required'), over the messages the
\* recorders raise.
startsWithMissingRequired(error) ==
    error \in { "Missing required session ID", "Missing required parameter: page",
                "Missing required parameter: scrollDepth",
                "Missing required parameters: element and href" }

\* Mutant of statusOf: the invalid-session branch is missing from the catch block.
statusOf_NoForbidden(error) ==
    IF error = "" THEN 200
    ELSE IF startsWithMissingRequired(error) THEN 400
    ELSE 500

\* The catch block of the tracking routes: the status answered for the message
\* of the error the recorder raised ("" when it returned normally).
statusOf(error) ==
    IF error = "" THEN 200
    ELSE IF startsWithMissingRequired(error) THEN 400
    ELSE IF error = "Invalid session" THEN 403
    ELSE 500

\* What the route answers for a recorder outcome.
Answer(error) == [status |-> statusOf(error), error |-> error]

\* The page-view part of handleTracking (if (data.page) { ... }).
D1PageStep(PV, data, timestamp, pick) ==
    IF data.page = "" THEN PV
    ELSE LET PV1 == IF data.timeSpent # 0 THEN SetTimeSpent(PV, pick, data.timeSpent) ELSE PV
         IN Append(PV1, D1PageViewRow(data, timestamp))

\* The event part of handleTracking (if (data.event && !['session_start', ...])).
D1EventStep(EV, data, timestamp) ==
    IF data.event \notin {"", "session_start", "session_end"}
    THEN Append(EV, D1EventRow(data, timestamp)) ELSE EV

\* Analytics.handleTracking(data) of lib/analytics-d1.ts.  pick1 and pick2 are
\* the rows the two "latest page view" subqueries return.
D1HandleTracking(data, pick1, pick2) ==
    LET timestamp == timestampOf(data.timestamp, now)
        existing == data.sessionId \in DOMAIN d1_sessions
    IN
    /\ reqs < MaxReqs
    /\ reqs' = reqs + 1
    /\ lastReq' = [op |-> "d1", sessionId |-> data.sessionId, event |-> data.event,
                   page |-> data.page, timeSpent |-> data.timeSpent,
                   scrollDepth |-> data.scrollDepth, element |-> data.element,
                   href |-> data.href]
    /\ pick1 \in LatestPicks(page_views, data.sessionId)
    /\ IF data.sessionId = NoToken
       THEN /\ pick2 = 0
            /\ lastResp' = Answer("Missing required session ID")
            /\ UNCHANGED d1Tables
       ELSE IF InvalidSession(existing, data.event)
       THEN /\ pick2 = 0
            /\ lastResp' = Answer("Invalid session")
            /\ UNCHANGED d1Tables
       ELSE IF data.event = "session_start"
       THEN /\ pick2 = 0
            /\ d1_sessions' = IF existing THEN d1_sessions
                              ELSE InsertSession(d1_sessions, data.sessionId,
                                                 D1SessionRow(data, timestamp))
            /\ lastResp' = Answer("")
            /\ UNCHANGED <<page_views, d1_events>>
       ELSE IF data.event = "session_end"
       THEN /\ pick2 = 0
            /\ d1_sessions' = SetEndTime(d1_sessions, data.sessionId, timestamp)
            /\ page_views' = IF data.timeSpent # 0
                             THEN SetTimeSpent(page_views, pick1, data.timeSpent)
                             ELSE page_views
            /\ lastResp' = Answer("")
            /\ UNCHANGED d1_events
       ELSE LET PV1 == D1PageStep(page_views, data, timestamp, pick1)
            IN /\ pick2 \in LatestPicks(PV1, data.sessionId)
               /\ page_views' = IF data.event = "performance"
                                THEN BackfillPerf(PV1, pick2, data.perf) ELSE PV1
               /\ d1_events' = D1EventStep(d1_events, data, timestamp)
               /\ lastResp' = Answer("")
               /\ UNCHANGED d1_sessions
    /\ UNCHANGED <<now, minted, trackTables, libTables, clientVars, inflight>>

\* The message of the error a rejected storage statement raises.
StorageError == "D1_ERROR"

\* The statements of handleTracking at which a storage failure is modelled.
D1FailPoints == {"select", "insert_page_view", "insert_event"}

\* Analytics.handleTracking(data) when the storage statement failAt rejects:
\* the statements before it have been applied, the error propagates to the
\* route, which answers through its catch block.
D1HandleTrackingFails(data, pick1, failAt) ==
    LET timestamp == timestampOf(data.timestamp, now)
        existing == data.sessionId \in DOMAIN d1_sessions
        passed == /\ data.sessionId # NoToken
                  /\ ~InvalidSession(existing, data.event)
                  /\ data.event \notin {"session_start", "session_end"}
    IN
    /\ reqs < MaxReqs
    /\ reqs' = reqs + 1
    /\ pick1 \in LatestPicks(page_views, data.sessionId)
    /\ lastReq' = [op |-> "d1", sessionId |-> data.sessionId, event |-> data.event,
                   page |-> data.page, timeSpent |-> data.timeSpent,
                   scrollDepth |-> data.scrollDepth, element |-> data.element,
                   href |-> data.href]
    /\ lastResp' = Answer(StorageError)
    /\ CASE failAt = "select" ->
               /\ data.sessionId # NoToken
               /\ UNCHANGED d1Tables
         [] failAt = "insert_page_view" ->
               /\ passed /\ data.page # ""
               /\ page_views' = IF data.timeSpent # 0
                                THEN SetTimeSpent(page_views, pick1, data.timeSpent)
                                ELSE page_views
               /\ UNCHANGED <<d1_sessions, d1_events>>
         [] failAt = "insert_event" ->
               /\ passed /\ data.event # ""
               /\ page_views' = D1PageStep(page_views, data, timestamp, pick1)
               /\ UNCHANGED <<d1_sessions, d1_events>>
    /\ UNCHANGED <<now, minted, trackTables, libTables, clientVars, inflight>>

\* Request fields a caller of handleTracking can send.
D1Tokens == {NoToken, 1, 2}
D1Events == {"", "session_start", "session_end", "pageview", "performance"}
D1Pages == {"", "/home"}
D1TimeSpent == {0, 5000}
D1Perf == {NoPerf, [NoPerf EXCEPT !["ttfb"] = 120]}

D1Requests ==
    [sessionId : D1Tokens, event : D1Events, page : D1Pages, timeSpent : D1TimeSpent,
     perf : D1Perf, scrollDepth : {""}, element : {""}, href : {""},
     deviceType : {"desktop"}, timestamp : {0}]

NextD1 ==
    \/ \E data \in D1Requests, pick1 \in 0 .. MaxReqs, pick2 \in 0 .. MaxReqs :
          D1HandleTracking(data, pick1, pick2)
    \/ \E t \in D1Instants : Advance(t)

SpecD1 == Init /\ [][NextD1]_vars

\* Performance samples a page can report: a first partial sample and a later
\* one that repeats a column with another value.
D1PerfSamples ==
    {NoPerf, [NoPerf EXCEPT !["lcp"] = 2500],
     [NoPerf EXCEPT !["lcp"] = 1800, !["fid"] = 40]}

D1PerfRequests ==
    [sessionId : {1}, event : {"session_start", "pageview", "performance"},
     page : D1Pages, timeSpent : {0}, perf : D1PerfSamples, scrollDepth : {""},
     element : {""}, href : {""}, deviceType : {"desktop"}, timestamp : {0}]

\* The D1 recorder receiving the requests of one page that reports its
\* performance in several samples.
NextD1Perf ==
    \/ \E data \in D1PerfRequests, pick1 \in 0 .. MaxReqs, pick2 \in 0 .. MaxReqs :
          D1HandleTracking(data, pick1, pick2)
    \/ \E t \in D1Instants : Advance(t)

SpecD1Perf == Init /\ [][NextD1Perf]_vars

\* The D1 recorder over a storage that can reject a statement.
NextD1Faulty ==
    \/ NextD1
    \/ \E data \in D1Requests, pick1 \in 0 .. MaxReqs, failAt \in D1FailPoints :
          D1HandleTrackingFails(data, pick1, failAt)

SpecD1Faulty == Init /\ [][NextD1Faulty]_vars

(***************************************************************************)
(* analytics-d1: Analytics.getMetrics.  A timeframe is a record of         *)
(* millisecond stamps; 0 stands for an absent (or zero, equally falsy)     *)
(* bound.                                                                  *)
(***************************************************************************)
NoTimeframe == [startTime |-> 0, endTime |-> 0]

\* getTimeframeCondition: the conjunction of the bounds present; TRUE when the
\* condition string is empty.
getTimeframeCondition(timeframe, stamp) ==
    /\ timeframe.startTime # 0 => stamp >= timeframe.startTime
    /\ timeframe.endTime # 0 => stamp <= timeframe.endTime

\* The condition string is non-empty.
HasCondition(timeframe) == timeframe.startTime # 0 \/ timeframe.endTime # 0

\* session_page_counts: the page_views rows joined to session x that pass the
\* WHERE clause.
JoinedPageViews(PV, x, timeframe) ==
    { i \in DOMAIN PV : /\ PV[i].session_id = x
                        /\ getTimeframeCondition(timeframe, PV[i].timestamp) }

\* The sessions that have a group in session_page_counts.  Without a
\* condition the LEFT JOIN keeps every session; with one, a session passes
\* only with its start_time and at least one joined page-view in the frame
\* (the all-NULL row of a session without page-views fails pv.timestamp >= ?).
CountedSessions(S, PV, timeframe) ==
    IF ~HasCondition(timeframe) THEN DOMAIN S
    ELSE { x \in DOMAIN S : /\ getTimeframeCondition(timeframe, S[x].start_time)
                            /\ JoinedPageViews(PV, x, timeframe) # {} }

\* ROUND(CAST(SUM(CASE WHEN page_count = 1 OR page_count IS NULL ...) AS FLOAT)
\*       / NULLIF(COUNT(*), 0) * 100, 2); COUNT(pv.id) is never NULL.
bounceRate(S, PV, timeframe) ==
    LET G == CountedSessions(S, PV, timeframe)
        page_count(x) == Cardinality(JoinedPageViews(PV, x, timeframe))
    IN RatePct(CountWhere(G, { x \in G : page_count(x) = 1 }), Cardinality(G))

\* Analytics.getMetrics(timeframe): reads only.
D1GetMetrics(timeframe) ==
    /\ lastReq' = [op |-> "getMetrics", timeframe |-> timeframe]
    /\ lastResp' = [status |-> 200,
                    bounceRate |-> OrZero(bounceRate(d1_sessions, page_views, timeframe))]
    /\ UNCHANGED <<now, minted, reqs, trackTables, d1Tables, libTables, clientVars, inflight>>

\* Timeframes a dashboard asks for: all time, and from 1 s to 7 s.
D1Timeframes == {NoTimeframe, [startTime |-> 1000, endTime |-> 7000]}

\* The tracking calls of the metrics model: session starts and page views.
D1MetricsRequests ==
    { d \in D1Requests : /\ d.timeSpent = 0 /\ d.perf = NoPerf
                         /\ d.event \in {"session_start", "pageview"} }

NextD1Metrics ==
    \/ \E data \in D1MetricsRequests, pick1 \in 0 .. MaxReqs, pick2 \in 0 .. MaxReqs :
          D1HandleTracking(data, pick1, pick2)
    \/ \E timeframe \in D1Timeframes : D1GetMetrics(timeframe)
    \/ \E t \in D1Instants : Advance(t)

SpecD1Metrics == Init /\ [][NextD1Metrics]_vars

(***************************************************************************)
(* lib/analytics: the Analytics class over getDB().                        *)
(***************************************************************************)
\* getSession: SELECT session_id FROM sessions WHERE session_id = ?
\*             AND created_at > datetime('now', '-24 hours')
LibWindowOpen(created, t) == created > t - LIB_SESSION_WINDOW

getSession(S, sessionId, t) ==
    sessionId \in DOMAIN S /\ LibWindowOpen(S[sessionId].created_at, t)

\* createSession: INSERT INTO sessions (session_id, created_at) VALUES (?, datetime('now'))
createSession(S, sessionId, t) == InsertSession(S, sessionId, [created_at |-> t])

\* scrollDepth ? parseInt(scrollDepth) : undefined
parseDepth(s) == IF s = "" THEN NULL ELSE IF s = "75" THEN 75 ELSE 25

\* trackEvent: INSERT INTO events (session_id, event_type, page, scroll_depth, element, href, created_at)
trackEvent(EV, sessionId, params, t) ==
    Append(EV, [session_id |-> sessionId, event_type |-> params.event,
                page |-> params.page, scroll_depth |-> parseDepth(params.scrollDepth),
                element |-> params.element, href |-> params.href, created_at |-> t])

\* The required-parameter validation at the head of handleTracking.
LibMissing(params) ==
    IF params.event = "pageview" /\ params.page = ""
    THEN "Missing required parameter: page"
    ELSE IF params.event = "scroll" /\ params.scrollDepth = ""
    THEN "Missing required parameter: scrollDepth"
    ELSE IF params.event = "click" /\ (params.element = "" \/ params.href = "")
    THEN "Missing required parameters: element and href"
    ELSE ""

\* Analytics.handleTracking(params) of lib/analytics.
LibHandleTracking(params) ==
    /\ reqs < MaxReqs
    /\ reqs' = reqs + 1
    /\ lastReq' = [op |-> "lib", sessionId |-> params.sessionId, event |-> params.event,
                   page |-> params.page, scrollDepth |-> params.scrollDepth,
                   element |-> params.element, href |-> params.href]
    /\ IF LibMissing(params) # ""
       THEN /\ lastResp' = [status |-> statusOf(LibMissing(params)), error |-> LibMissing(params),
                            session_id |-> NoToken, is_new_session |-> FALSE]
            /\ UNCHANGED <<minted, libTables>>
       ELSE LET reuse == /\ params.sessionId # NoToken
                         /\ getSession(lib_sessions, params.sessionId, now)
                activeSessionId == IF reuse THEN params.sessionId ELSE minted + 1
            IN /\ minted' = IF reuse THEN minted ELSE minted + 1
               /\ lib_sessions' = IF reuse THEN lib_sessions
                                  ELSE createSession(lib_sessions, activeSessionId, now)
               /\ lib_events' = IF params.event # ""
                                THEN trackEvent(lib_events, activeSessionId, params, now)
                                ELSE lib_events
               /\ lastResp' = [status |-> statusOf(""), error |-> "",
                               session_id |-> activeSessionId, is_new_session |-> ~reuse]
    /\ UNCHANGED <<now, trackTables, d1Tables, clientVars, inflight>>

\* The requests a caller of handleTracking sends: a bare session probe, a
\* pageview with or without its page, a scroll with or without its depth, a
\* click with neither, one or both of element and href; each under any token.
LibFields(e, p, sd, el, h) ==
    [event |-> e, page |-> p, scrollDepth |-> sd, element |-> el, href |-> h]

LibShapes ==
    { LibFields("", "", "", "", ""),
      LibFields("pageview", "", "", "", ""), LibFields("pageview", "/home", "", "", ""),
      LibFields("scroll", "", "", "", ""), LibFields("scroll", "", "75", "", ""),
      LibFields("click", "", "", "", ""), LibFields("click", "", "", "cta", ""),
      LibFields("click", "", "", "cta", "/signup") }

LibRequests ==
    { [sessionId |-> sid, event |-> f.event, page |-> f.page,
       scrollDepth |-> f.scrollDepth, element |-> f.element, href |-> f.href] :
        sid \in Presentable, f \in LibShapes }

NextLib ==
    \/ \E params \in LibRequests : LibHandleTracking(params)
    \/ \E t \in LibInstants : Advance(t)

SpecLib == Init /\ [][NextLib]_vars

(***************************************************************************)
(* Properties.                                                             *)
(***************************************************************************)
PageviewsOf(sid) == { i \in DOMAIN pageviews : pageviews[i].session_id = sid }
EventsOf(sid) == { i \in DOMAIN events : events[i].session_id = sid }
EngagementSignals == {"user_engaged", "conversion"}
IsLastOf(i, sid) == i \in PageviewsOf(sid) /\ \A j \in PageviewsOf(sid) : j <= i
IsFirstOf(i, sid) == i \in PageviewsOf(sid) /\ \A j \in PageviewsOf(sid) : i <= j

\* The step just taken handled a track-route request that reached the resolver.
TrackStep ==
    /\ reqs' = reqs + 1
    /\ \/ lastReq'.op = "GET"
       \/ lastReq'.op = "POST" /\ ~lastReq'.noTrack

\* C1, track route: a token of a session started less than 30 minutes ago is
\* reused (no new row, page_count + 1); one started more than 30 minutes ago
\* gets a new session row.
C1_TrackPart ==
    TrackStep =>
        LET tok == Or(lastReq'.query, lastReq'.cookie) IN
        tok \in DOMAIN sessions =>
            LET age == now - sessions[tok].start_time IN
            /\ age < SESSION_WINDOW =>
                  /\ DOMAIN sessions' = DOMAIN sessions
                  /\ sessions'[tok].page_count = sessions[tok].page_count + 1
            /\ age > SESSION_WINDOW =>
                  /\ DOMAIN sessions' # DOMAIN sessions
                  /\ lastResp'.session_id # tok

\* C1, Analytics.getSession: the same window for the lib class.
C1_LibPart ==
    (reqs' = reqs + 1 /\ lastReq'.op = "lib" /\ lastResp'.status = 200) =>
        LET tok == lastReq'.sessionId IN
        tok \in DOMAIN lib_sessions =>
            LET age == now - lib_sessions[tok].created_at IN
            /\ age < SESSION_WINDOW =>
                  /\ DOMAIN lib_sessions' = DOMAIN lib_sessions
                  /\ lastResp'.session_id = tok
            /\ age > SESSION_WINDOW =>
                  /\ DOMAIN lib_sessions' # DOMAIN lib_sessions
                  /\ lastResp'.session_id # tok

\* C1: in the session resolver (getOrCreateSession of the track route and
\* getSession of the Analytics class) a call presenting the token of a session
\* started less than 30 minutes ago reuses it, and a call presenting the token
\* of a session started more than 30 minutes ago inserts a new session row.
C1_SessionReuseWindow == [][C1_TrackPart /\ C1_LibPart]_vars

ValidationErrors ==
    { "Missing required parameter: page", "Missing required parameter: scrollDepth",
      "Missing required parameters: element and href" }

\* The step just taken handled a request that carried no session token and
\* was not refused for a missing event parameter.
TokenlessStep ==
    /\ reqs' = reqs + 1
    /\ \/ TrackStep /\ Or(lastReq'.query, lastReq'.cookie) = NoToken
       \/ lastReq'.op \in {"d1", "lib"} /\ lastReq'.sessionId = NoToken
             /\ lastResp'.error \notin ValidationErrors

AllSessionIds == DOMAIN sessions \cup DOMAIN d1_sessions \cup DOMAIN lib_sessions

\* C2: a tracking call that presents no session token is not rejected: the
\* resolver inserts exactly one new session row under a fresh token and hands
\* that token back, at every entry point that records events.
C2_TokenlessCallMintsSession ==
    [][TokenlessStep =>
          /\ lastResp'.status = 200
          /\ \E fresh \in (DOMAIN sessions' \cup DOMAIN d1_sessions' \cup DOMAIN lib_sessions')
                              \ AllSessionIds :
                /\ (DOMAIN sessions' \cup DOMAIN d1_sessions' \cup DOMAIN lib_sessions')
                       = AllSessionIds \cup {fresh}
                /\ lastResp'.session_id = fresh]_vars

\* C3: every session with exactly one recorded page-view and no user_engaged
\* or conversion event has is_bounce = true, whatever requests were handled.
C3_SinglePageviewIsBounce ==
    \A sid \in DOMAIN sessions :
        ( /\ Cardinality(PageviewsOf(sid)) = 1
          /\ \A i \in EventsOf(sid) : events[i].event_name \notin EngagementSignals )
        => sessions[sid].is_bounce

\* C4: every session with two or more recorded page-views has is_bounce =
\* false once the second page-view request has completed, whatever the time
\* spent.
C4_TwoPageviewsNotBounce ==
    \A sid \in DOMAIN sessions :
        Cardinality(PageviewsOf(sid)) >= 2 => ~sessions[sid].is_bounce

\* C4 witness: a session with two page-views recorded at the same instant
\* (no time spent at all) whose bounce flag has been cleared.
C4_Witness ==
    \E sid \in DOMAIN sessions :
        /\ Cardinality(PageviewsOf(sid)) >= 2
        /\ sessions[sid].total_time_ms = 0
        /\ ~sessions[sid].is_bounce

\* C5: for consecutive page-views P1 at t0 and P2 at t1 of one session, once
\* the P2 request has completed P1.time_on_page = t1 - t0 and P1.exit_page is
\* false.
C5_TimeOnPageBackfill ==
    \A sid \in DOMAIN sessions : \A i, j \in PageviewsOf(sid) :
        (i < j /\ \A k \in PageviewsOf(sid) : ~(i < k /\ k < j)) =>
            /\ pageviews[i].time_on_page_ms
                   = (pageviews[j].timestamp - pageviews[i].timestamp) * MS_PER_S
            /\ ~pageviews[i].exit_page

\* C6: at rest every session has at most one page-view with exit_page = true.
C6_AtMostOneExitPage ==
    \A sid \in DOMAIN sessions :
        Cardinality({ i \in PageviewsOf(sid) : pageviews[i].exit_page }) <= 1

\* C7: at rest the most recently recorded page-view of every session that has
\* one has exit_page = true.
C7_LatestPageviewIsExit ==
    \A sid \in DOMAIN sessions : \A i \in PageviewsOf(sid) :
        IsLastOf(i, sid) => pageviews[i].exit_page

\* C8: a page-view has entry_page = true if and only if it is the first
\* page-view recorded for its session.
C8_EntryIffFirst ==
    \A i \in DOMAIN pageviews :
        pageviews[i].entry_page <=> IsFirstOf(i, pageviews[i].session_id)

\* C9: a session's page_count equals the number of page-view rows recorded for
\* it; recording a non-page-view event does not change page_count.
C9_PageCountMatchesRows ==
    \A sid \in DOMAIN sessions :
        sessions[sid].page_count = Cardinality(PageviewsOf(sid))

\* The step just taken was a handleTracking call of the D1 class for a token
\* with no stored session and an event other than session_start.
D1OrphanStep ==
    /\ reqs' = reqs + 1
    /\ lastReq'.op = "d1"
    /\ lastReq'.sessionId # NoToken
    /\ lastReq'.sessionId \notin DOMAIN d1_sessions
    /\ lastReq'.event # "session_start"

\* C10: in Analytics.handleTracking an event that references a token with no
\* stored session, and is not a session_start, fails with 'Invalid session'
\* and writes nothing.
C10_InvalidSessionWritesNothing ==
    [][D1OrphanStep =>
          /\ lastResp'.error = "Invalid session"
          /\ UNCHANGED d1Tables]_vars

\* C10 witness: a page-view for an unknown token was rejected while another
\* session had rows stored.
C10_Witness ==
    /\ lastReq.op = "d1"
    /\ lastReq.page # ""
    /\ lastReq.sessionId \notin DOMAIN d1_sessions
    /\ lastResp.error = "Invalid session"
    /\ page_views # <<>>

\* The step just taken handled a recorder call whose event lacks a parameter
\* it requires: a pageview without page, a scroll without depth, a click
\* without both element and href.
MissingParamStep ==
    /\ reqs' = reqs + 1
    /\ lastReq'.op \in {"d1", "lib"}
    /\ \/ lastReq'.event = "pageview" /\ lastReq'.page = ""
       \/ lastReq'.event = "scroll" /\ lastReq'.scrollDepth = ""
       \/ lastReq'.event = "click" /\ (lastReq'.element = "" \/ lastReq'.href = "")

\* C11: a pageview without a page path, a scroll without a depth or a click
\* without both element and href is rejected with a missing-required-parameter
\* error and leaves storage unchanged, in the D1-backed and the getDB-backed
\* recorder alike.
C11_MissingParameterRejected ==
    [][MissingParamStep =>
          /\ startsWithMissingRequired(lastResp'.error)
          /\ UNCHANGED <<d1Tables, libTables>>]_vars

C13_IsNewSessionIffInserted ==
    [][(reqs' = reqs + 1 /\ lastReq'.op \in {"GET", "lib"} /\ lastResp'.status = 200) =>
          (lastResp'.is_new_session <=>
              \/ DOMAIN sessions' # DOMAIN sessions
              \/ DOMAIN lib_sessions' # DOMAIN lib_sessions)]_vars

\* The step just taken handled a track-route request carrying X-No-Track: 1.
NoTrackStep ==
    /\ reqs' = reqs + 1
    /\ lastReq'.op \in {"GET", "POST"}
    /\ lastReq'.noTrack

\* C17: a tracking request carrying the X-No-Track signal returns a success
\* response and performs no storage write at all, on the GET page-view
\* endpoint and on the POST event endpoint.
C17_NoTrackWritesNothing ==
    [][NoTrackStep =>
          /\ lastResp'.status = 200
          /\ UNCHANGED trackTables]_vars

\* The earlier sessions a new session row n is compared with: started within
\* the trailing 30 days and stored under the presented token, or (byFp) with
\* the fingerprint of n.
PriorMatch(n, sameFp(_, _)) ==
    \E x \in DOMAIN sessions :
        /\ sessions[x].start_time > now - RETURNING_WINDOW
        /\ \/ x = Or(lastReq'.query, lastReq'.cookie)
           \/ sameFp(sessions[x], sessions'[n])

SameBrowserDevice(a, b) == a.browser = b.browser /\ a.device = b.device
SameBrowserDeviceOS(a, b) == SameBrowserDevice(a, b) /\ a.os = b.os

\* C14 as stated: a newly inserted session has is_returning = true if and
\* only if an earlier session started within the trailing 30 days has the
\* same token or the same (browser, device class) fingerprint.
C14_ReturningIffTokenOrBrowserDevice ==
    [][\A n \in DOMAIN sessions' \ DOMAIN sessions :
          sessions'[n].is_returning <=> PriorMatch(n, SameBrowserDevice)]_vars

\* C14, amended: the fingerprint is (browser, device class) in the GET/POST
\* route and (browser, device class, operating system) in the POST-only
\* revision of the route.
C14_ReturningIffTokenOrFingerprint ==
    [][\A n \in DOMAIN sessions' \ DOMAIN sessions :
          sessions'[n].is_returning <=>
              IF lastReq'.op = "POST2" THEN PriorMatch(n, SameBrowserDeviceOS)
              ELSE PriorMatch(n, SameBrowserDevice)]_vars

\* C14 witness: three sessions stored, a first-ever visitor classified as new
\* and a later one classified as returning.
C14_Witness ==
    /\ Cardinality(DOMAIN sessions) = 3
    /\ \E a, b \in DOMAIN sessions :
          /\ ~sessions[a].is_returning
          /\ sessions[b].is_returning
          /\ sessions[b].start_time > sessions[a].start_time + RETURNING_WINDOW

\* The step just taken handled a track-route request that ended in the catch
\* block because a storage write failed.
FailedTrackStep ==
    /\ reqs' = reqs + 1
    /\ lastReq'.op \in {"GET", "POST"}
    /\ lastResp'.status = 500

\* C15: the writes of one tracking request are applied as one atomic unit: if
\* any storage write of the request fails, none of the request's earlier
\* writes remains visible.
C15_FailedRequestWritesNothing ==
    [][FailedTrackStep => UNCHANGED trackTables]_vars

\* C16: every event row and every page-view row carries a session id for
\* which a session row exists; no reachable state holds an event or page-view
\* whose session id matches no session row.
C16_RowsReferenceSessions ==
    /\ \A i \in DOMAIN pageviews : pageviews[i].session_id \in DOMAIN sessions
    /\ \A i \in DOMAIN events : events[i].session_id \in DOMAIN sessions
    /\ \A i \in DOMAIN page_views : page_views[i].session_id \in DOMAIN d1_sessions
    /\ \A i \in DOMAIN d1_events : d1_events[i].session_id \in DOMAIN d1_sessions
    /\ \A i \in DOMAIN lib_events : lib_events[i].session_id \in DOMAIN lib_sessions

\* C16 witness: a session holds a page-view and an event, and the latest
\* request, for a token without a session, was turned away.
C16_Witness ==
    /\ page_views # <<>>
    /\ d1_events # <<>>
    /\ lastReq.op = "d1"
    /\ lastReq.sessionId \notin DOMAIN d1_sessions \cup {NoToken}
    /\ lastReq.event = "pageview"

\* The step just taken answered a metrics request from the stored state.
MetricsStep == lastReq'.op = "metrics" /\ now' = now

\* No session started in the window of the metrics request just answered.
NoSessionInWindow ==
    \A x \in DOMAIN sessions :
        ~InWindow(sessions[x].start_time, now, daysToSubtract(lastReq'.period))

\* C18: when the queried window contains no sessions, every ratio the metrics
\* operations return (bounce rate, returning-visitor rate, CTR) is the number
\* 0, never null; this includes the retention block of the metrics route.
C18_EmptyWindowRatesAreZero ==
    [][(MetricsStep /\ NoSessionInWindow) =>
          /\ lastResp'.retention.bounce_rate = 0
          /\ lastResp'.retention.returning_visitor_rate = 0
          /\ \A c \in lastResp'.ctr : c.ctr = 0]_vars

\* Page-view rows of a path inside the window of the metrics request.
PageviewRowsFor(path, days) ==
    { i \in DOMAIN pageviews :
        pageviews[i].page_path = path /\ InWindow(pageviews[i].timestamp, now, days) }

\* C20: the click-through rate reported for a (page path, element, href)
\* group equals its number of click events divided by the number of page-view
\* rows for that page path in the window, times 100.
C20_CtrOverPageviewRows ==
    [][MetricsStep =>
          \A c \in lastResp'.ctr :
              LET rows == PageviewRowsFor(c.page_path, daysToSubtract(lastReq'.period))
              IN rows # {} => c.ctr = RatePct(c.clicks, Cardinality(rows))]_vars

\* The step just taken answered a getMetrics call from the stored state.
GetMetricsStep == lastReq'.op = "getMetrics" /\ now' = now

\* The sessions whose start time lies in the frame, and their page-views in it.
SessionsInFrame(timeframe) ==
    { x \in DOMAIN d1_sessions : getTimeframeCondition(timeframe, d1_sessions[x].start_time) }

PageViewsInFrame(x, timeframe) ==
    { i \in DOMAIN page_views : /\ page_views[i].session_id = x
                                /\ getTimeframeCondition(timeframe, page_views[i].timestamp) }

\* C19: the bounce rate getMetrics returns equals the number of sessions in
\* the window with zero or exactly one page-view, divided by the number of
\* sessions in the window, times 100, rounded to 2 decimals.
C19_BounceRateFormula ==
    [][GetMetricsStep =>
          LET tf == lastReq'.timeframe
              W == SessionsInFrame(tf)
              bounced == { x \in W : Cardinality(PageViewsInFrame(x, tf)) <= 1 }
          IN W # {} => lastResp'.bounceRate = RatePct(Cardinality(bounced), Cardinality(W))]_vars

(***************************************************************************)
(* hooks/useAnalytics.ts: the capture client.  Times are in seconds.  The  *)
(* operators thread a record w = [storage, minted, sent, hook] through the *)
(* statements of a handler.  Performance reporting and section tracking    *)
(* are not modelled.                                                       *)
(***************************************************************************)
SESSION_TIMEOUT == 1800
BOUNCE_TIMEOUT == 30
MIN_ENGAGEMENT_TIME == 10
SIGNIFICANT_SCROLL_DEPTH == 25
DEBOUNCE_WAIT == 1

\* Messages sent per page load, and calls of markEngaged per page load, that
\* the model follows.
MaxSent == 5
MaxInteractions == 4

World == [storage |-> storage, minted |-> minted, sent |-> sent, hook |-> hook]

Commit(w) ==
    /\ storage' = w.storage
    /\ minted' = w.minted
    /\ sent' = w.sent
    /\ hook' = w.hook

\* The refs of a newly created hook instance (the useRef initial values).
FreshHook(path, t) ==
    [Unmounted EXCEPT !.loaded = TRUE, !.pathname = path, !.startTime = t, !.lastFired = t]

\* if (sessionId && lastStart) { if (Date.now() - parseInt(lastStart) > SESSION_TIMEOUT) ... }
SessionExpired(st, t) ==
    /\ st.sessionId # NoToken
    /\ st.sessionStart # NULL
    /\ t - st.sessionStart > SESSION_TIMEOUT

\* getSessionId(): keeps the stored id unless it is absent or expired, then
\* stores uuidv4(); always stores the current time as the session start.
getSessionId(w, t) ==
    LET kept == w.storage.sessionId # NoToken /\ ~SessionExpired(w.storage, t)
    IN [w EXCEPT !.storage = [sessionId |-> IF kept THEN w.storage.sessionId ELSE w.minted + 1,
                              sessionStart |-> t],
                 !.minted = IF kept THEN @ ELSE @ + 1]

\* A request to the tracking endpoint: x-session-id, x-event, x-scroll-depth,
\* x-page (0 and "" for a header that is not set), the performance metrics
\* of a performance event, and the time it is sent.
Message(token, event, scrollDepth, page, metrics, t) ==
    [token |-> token, event |-> event, scrollDepth |-> scrollDepth, page |-> page,
     metrics |-> metrics, at |-> t]

\* trackEvent(event) of the hook: resolves the session id and sends x-event.
clientTrackEvent(w, t, event) ==
    LET w1 == getSessionId(w, t)
    IN [w1 EXCEPT !.sent = Append(@, Message(w1.storage.sessionId, event, 0, "", {}, t))]

\* trackScroll(depth) = track({ scrollDepth }): sends x-scroll-depth, no x-event.
trackScroll(w, t, depth) ==
    LET w1 == getSessionId(w, t)
    IN [w1 EXCEPT !.sent = Append(@, Message(w1.storage.sessionId, "", depth, "", {}, t))]

\* batchTrack([{event: 'session_start'}, {event: 'pageview', page}]): one
\* request carrying both events under one session id.
batchTrack(w, t, page) ==
    LET w1 == getSessionId(w, t)
    IN [w1 EXCEPT !.sent = @ \o << Message(w1.storage.sessionId, "session_start", 0, "", {}, t),
                                   Message(w1.storage.sessionId, "pageview", 0, page, {}, t) >>]

\* markEngaged()
markEngaged(w, t) ==
    LET h == w.hook
        timeOnPage == t - h.startTime
        isTimeEngaged == timeOnPage >= MIN_ENGAGEMENT_TIME
        isScrollEngaged == h.maxScrollDepth >= SIGNIFICANT_SCROLL_DEPTH
        isInteractionEngaged == h.interactions > 0
        w1 == IF ~h.isEngaged /\ (isTimeEngaged \/ isScrollEngaged \/ isInteractionEngaged)
              THEN clientTrackEvent(getSessionId([w EXCEPT !.hook.isEngaged = TRUE,
                                                     !.hook.bounceTimeout = NULL], t),
                              t, "user_engaged")
              ELSE w
    IN [w1 EXCEPT !.hook.interactions = @ + 1]

\* The milestone branch of handleScroll for a scroll percentage of 25 or more.
milestoneOf(scrollPercentage) ==
    IF scrollPercentage < 50 THEN 25
    ELSE IF scrollPercentage < 75 THEN 50
    ELSE IF scrollPercentage < 100 THEN 75
    ELSE 100

\* The body of the debounced handleScroll.
handleScroll(w, t, scrollPercentage) ==
    LET w1 == [w EXCEPT !.hook.maxScrollDepth =
                   IF scrollPercentage > @ THEN scrollPercentage ELSE @]
    IN IF scrollPercentage >= 25
       THEN markEngaged(trackScroll(w1, t, milestoneOf(scrollPercentage)), t)
       ELSE w1

\* The body of the page-view effect (useEffect on [pathname, ...]).
RunEffect(w, t) ==
    LET w1 == getSessionId(w, t)
    IN IF w1.hook.hasTrackedInitialView THEN w1
       ELSE LET w2 == [w1 EXCEPT !.hook.hasTrackedInitialView = TRUE,
                                 !.hook.isEngaged = FALSE,
                                 !.hook.maxScrollDepth = 0,
                                 !.hook.interactions = 0,
                                 !.hook.startTime = t]
                w3 == batchTrack(w2, t, w2.hook.pathname)
            IN [w3 EXCEPT !.hook.bounceTimeout = t + BOUNCE_TIMEOUT,
                          !.hook.listening = TRUE,
                          !.hook.fidObserving = TRUE,
                          !.hook.lastFired = t]

\* The cleanup the effect returned, if it returned one.
Cleanup(w) ==
    IF w.hook.listening
    THEN [w EXCEPT !.hook.bounceTimeout = NULL, !.hook.listening = FALSE,
                   !.hook.fidObserving = FALSE]
    ELSE w

serverVars == <<reqs, trackTables, d1Tables, libTables, lastReq, lastResp, inflight>>

\* A document is loaded and the hook mounts on the given path.
PageLoad(path) ==
    /\ ~hook.loaded
    /\ Commit(RunEffect([World EXCEPT !.hook = FreshHook(path, now), !.sent = <<>>], now))
    /\ UNCHANGED <<now, serverVars>>

\* Client-side navigation: pathname changes while the hook stays mounted;
\* the effect's cleanup runs, then the effect.
Navigate(path) ==
    /\ hook.loaded
    /\ path # hook.pathname
    /\ Commit(RunEffect([Cleanup(World) EXCEPT !.hook.pathname = path], now))
    /\ UNCHANGED <<now, serverVars>>

\* The debounced handlers can run: the listeners are attached, the debounce
\* wait has passed since they were attached or last ran.
HandlersReady(calls) ==
    /\ hook.loaded
    /\ hook.listening
    /\ now - hook.lastFired >= DEBOUNCE_WAIT
    /\ Len(sent) < MaxSent
    /\ hook.interactions + calls <= MaxInteractions

\* A mousemove, touchstart, click or keydown: the debounced handleEngagement runs.
Interaction ==
    /\ HandlersReady(1)
    /\ Commit([markEngaged(World, now) EXCEPT !.hook.lastFired = now])
    /\ UNCHANGED <<now, serverVars>>

\* A scroll that ends at the given percentage: the debounced handleEngagement
\* runs, then the debounced handleScroll.
Scroll(scrollPercentage) ==
    /\ HandlersReady(2)
    /\ Commit([handleScroll(markEngaged(World, now), now, scrollPercentage)
                   EXCEPT !.hook.lastFired = now])
    /\ UNCHANGED <<now, serverVars>>

\* The first-input performance entry is reported (where the browser reports
\* it): the observer calls markEngaged and disconnects.
FirstInput ==
    /\ hook.loaded
    /\ hook.fidObserving
    /\ Len(sent) < MaxSent
    /\ hook.interactions + 1 <= MaxInteractions
    /\ Commit([markEngaged(World, now) EXCEPT !.hook.fidObserving = FALSE])
    /\ UNCHANGED <<now, serverVars>>

\* The bounce timer set by the effect fires.
BounceTimer ==
    /\ hook.loaded
    /\ hook.bounceTimeout = now
    /\ Commit([(IF ~hook.isEngaged THEN clientTrackEvent(World, now, "bounce") ELSE World)
                   EXCEPT !.hook.bounceTimeout = NULL])
    /\ UNCHANGED <<now, serverVars>>

\* beforeunload: handleBeforeUnload runs if it is still registered, then the
\* document and the hook are gone.
Unload ==
    /\ hook.loaded
    /\ Commit([(IF hook.listening
                 THEN clientTrackEvent(World, now, IF hook.isEngaged THEN "session_end" ELSE "bounce")
                 ELSE World)
                   EXCEPT !.hook = Unmounted])
    /\ UNCHANGED <<now, serverVars>>

ClientInstants == {0, 5, 12, 1000, 1900}
ClientClock == ClientInstants \cup { t + BOUNCE_TIMEOUT : t \in ClientInstants }
ClientPages == {"/", "/blog"}
ScrollPercentages == {10, 30, 60, 100}

\* Time passes; an armed bounce timer is not skipped.
Tick(t) ==
    /\ (hook.loaded /\ hook.bounceTimeout # NULL) => t <= hook.bounceTimeout
    /\ Advance(t)

NextClient ==
    \/ \E path \in ClientPages : PageLoad(path)
    \/ \E path \in ClientPages : Navigate(path)
    \/ Interaction
    \/ \E scrollPercentage \in ScrollPercentages : Scroll(scrollPercentage)
    \/ FirstInput
    \/ BounceTimer
    \/ Unload
    \/ \E t \in ClientClock : Tick(t)

SpecClient == Init /\ [][NextClient]_vars

\* C21: the total_sessions figure of the retention metrics equals the number
\* of distinct sessions whose start time lies in the queried window,
\* including sessions that received a single request.
C21_TotalSessionsCountsWindow ==
    [][MetricsStep =>
          lastResp'.retention.total_sessions =
              Cardinality({ x \in DOMAIN sessions :
                  InWindow(sessions[x].start_time, now, daysToSubtract(lastReq'.period)) })]_vars

\* The window the selectors stand for: '24h' the last day, '7d' the last 7
\* days, '30d' the last 30 days, no selector the '24h' window.
SelectorDays(period) ==
    IF period \in {"", "24h"} THEN 1 ELSE IF period = "7d" THEN 7 ELSE 30

\* C22: the metrics endpoint maps '24h' to the last 1 day, '7d' to the last 7
\* days, '30d' to the last 30 days, and a request with no selector uses the
\* '24h' window: its answer is the one computed over that window.
C22_SelectorWindows ==
    [][MetricsStep =>
          /\ lastResp'.retention = retention(sessions, now, SelectorDays(lastReq'.period))
          /\ lastResp'.ctr = ctrMetrics(events, pageviews, now, SelectorDays(lastReq'.period))]_vars

\* C23: no metrics aggregation inserts, updates or deletes any session,
\* page-view or event row: the stored state after the call equals the stored
\* state before it.
C23_MetricsReadOnly ==
    [][(lastReq'.op \in {"metrics", "getMetrics"} /\ lastReq' # lastReq) =>
          UNCHANGED <<trackTables, d1Tables, libTables>>]_vars

\* C23 witness: a metrics request was answered over a store that holds a
\* completed session, page-views and a click.
C23_Witness ==
    /\ lastReq.op = "metrics"
    /\ lastResp.retention.total_sessions > 0
    /\ lastResp.ctr # {}
    /\ pageviews # <<>>

\* A metrics request that directly follows a metrics request with the same
\* selector: no tracking request lies between the two.
RepeatedMetricsStep ==
    /\ MetricsStep
    /\ lastReq.op = "metrics"
    /\ lastReq.period = lastReq'.period

\* C24 (as stated): two calls of a metrics aggregation with the same window
\* selector and no tracking write between them return identical results,
\* also for a relative window whose start bound is computed from the current
\* time at each call.
C24_RepeatedCallSameResult ==
    [][RepeatedMetricsStep => lastResp' = lastResp]_vars

\* The stored rows a relative window of the given length selects at time t.
WindowContents(t, days) ==
    [sessions |-> { x \in DOMAIN sessions : InWindow(sessions[x].start_time, t, days) },
     events |-> { i \in DOMAIN events : InWindow(events[i].timestamp, t, days) },
     pageviews |-> { i \in DOMAIN pageviews : InWindow(pageviews[i].timestamp, t, days) }]

\* C24 (amended): two calls with the same selector and no tracking write
\* between them return identical results whenever the window selects the
\* same stored rows at both call times.
C24_RepeatedCallSameWindowSameResult ==
    [][(RepeatedMetricsStep /\
        WindowContents(lastReq.at, daysToSubtract(lastReq.period)) =
            WindowContents(now, daysToSubtract(lastReq.period)))
       => lastResp' = lastResp]_vars

\* C24 witness: a metrics request repeated at a later time over a store with
\* a completed session, its window selecting the same rows as before.
C24_Witness ==
    /\ lastReq.op = "metrics"
    /\ lastReq.prev # NULL
    /\ lastReq.prev < lastReq.at
    /\ lastResp.retention.total_sessions > 0
    /\ WindowContents(lastReq.prev, daysToSubtract(lastReq.period)) =
           WindowContents(lastReq.at, daysToSubtract(lastReq.period))

\* A performance sample was processed by handleTracking.
PerformanceStep ==
    /\ lastReq'.op = "d1"
    /\ lastReq'.event = "performance"
    /\ reqs' = reqs + 1
    /\ lastResp'.status = 200

\* C25: when handleTracking processes a performance sample, a performance
\* column of a page-view is written only if it was null before: a column
\* that already holds a value from an earlier sample keeps that value.
C25_PerfWrittenOnlyIfNull ==
    [][PerformanceStep =>
          \A i \in DOMAIN page_views : \A c \in PerfCols :
              page_views[i].perf[c] # NULL =>
                  page_views'[i].perf[c] = page_views[i].perf[c]]_vars

\* The messages of the current page load that carry the given event name.
SentOf(log, event) == { i \in DOMAIN log : log[i].event = event }

\* A message that depends on its session: a scroll report (x-scroll-depth
\* set) or a click, performance, user_engaged or bounce event.
IsDependent(msg) ==
    \/ msg.scrollDepth # 0
    \/ msg.event \in {"click", "performance", "user_engaged", "bounce"}

\* C26: in the capture client every scroll, click, performance, user_engaged
\* or bounce message sent with session token T is sent after a session_start
\* for token T, also when getSessionId regenerates the token after 30
\* minutes within the same page lifetime.
C26_DependentEventsFollowSessionStart ==
    \A i \in DOMAIN sent :
        IsDependent(sent[i]) =>
            \E j \in 1 .. (i - 1) :
                sent[j].event = "session_start" /\ sent[j].token = sent[i].token

Milestones == {25, 50, 75, 100}

\* C27: within one page load each scroll milestone (25, 50, 75, 100) is sent
\* at most once, however the scroll position moves.
C27_MilestoneSentAtMostOnce ==
    \A depth \in Milestones :
        Cardinality({ i \in DOMAIN sent : sent[i].scrollDepth = depth }) <= 1

\* The page is unloaded while the effect's handlers are still registered.
UnloadStep == hook.loaded /\ hook.listening /\ ~hook'.loaded

\* An engagement condition has occurred on the page being left: 10 s or
\* more on the page, a scroll depth of 25% or more, or an interaction.
EngagementConditionOccurred ==
    \/ now - hook.startTime >= MIN_ENGAGEMENT_TIME
    \/ hook.maxScrollDepth >= SIGNIFICANT_SCROLL_DEPTH
    \/ hook.interactions > 0

\* C28: on a page load where an engagement condition occurs (10 s on the
\* page, 25% scroll depth, or an interaction such as a single click) the
\* engaged flag is set and user_engaged is sent exactly once.
C28_EngagedExactlyOnce ==
    [][(UnloadStep /\ EngagementConditionOccurred) =>
          /\ hook.isEngaged
          /\ Cardinality(SentOf(sent', "user_engaged")) = 1]_vars

\* C29: a bounce is sent for a page load if and only if no engagement
\* condition occurred before the bounce timer fired or the page was
\* unloaded; a page unloaded after more than 10 s is not reported as a bounce.
C29_BounceIffNoEngagement ==
    [][UnloadStep =>
          (SentOf(sent', "bounce") # {} <=> ~EngagementConditionOccurred)]_vars

\* The pathname changes while the hook stays mounted.
RouteChangeStep == hook.loaded /\ hook'.loaded /\ hook'.pathname # hook.pathname

\* C30: exactly one pageview is sent for each route change, and
\* session_start only once per resolved session.
C30_OnePageviewPerRouteChange ==
    [][RouteChangeStep =>
          /\ Cardinality(SentOf(sent', "pageview")) = Cardinality(SentOf(sent, "pageview")) + 1
          /\ \A i, j \in SentOf(sent', "session_start") : sent'[i].token = sent'[j].token => i = j]_vars

(***************************************************************************)
(* The client-side senders and the outcome of their network request.       *)
(***************************************************************************)
\* What fetch can do: reject (network failure) or resolve with a status.
Rejected == 0
FetchOutcomes == {Rejected, 200, 400, 403, 500}

\* response.ok
ResponseOk(outcome) == outcome \in 200 .. 299

\* track, trackPageView, trackEvent, batchTrack of the hook:
\* try { await fetch(...) } catch (error) { console.error(...) }
hookSend(outcome) ==
    [raised |-> FALSE, logged |-> outcome = Rejected]

\* trackSectionView: a non-ok response throws inside the try, the catch logs.
trackSectionView(outcome) ==
    [raised |-> FALSE, logged |-> outcome = Rejected \/ ~ResponseOk(outcome)]

\* The trackEvent utility: a non-ok response throws inside the try, the catch
\* logs and throws the error again.
trackEventUtility(outcome) ==
    [raised |-> outcome = Rejected \/ ~ResponseOk(outcome),
     logged |-> outcome = Rejected \/ ~ResponseOk(outcome)]

HookSenders == {"track", "trackPageView", "trackEvent", "batchTrack"}
ClientSenders == HookSenders \cup {"trackSectionView", "utils/trackEvent"}

\* What the caller of a sender observes for an outcome of its request.
senderResult(fn, outcome) ==
    IF fn \in HookSenders THEN hookSend(outcome)
    ELSE IF fn = "trackSectionView" THEN trackSectionView(outcome)
    ELSE trackEventUtility(outcome)

\* A sender is called and its request has the given outcome.
SenderCall(fn, outcome) ==
    /\ reqs < MaxReqs
    /\ reqs' = reqs + 1
    /\ lastReq' = [op |-> "send", fn |-> fn, outcome |-> outcome]
    /\ lastResp' = senderResult(fn, outcome)
    /\ UNCHANGED <<now, minted, trackTables, d1Tables, libTables, clientVars, inflight>>

NextTransport ==
    \/ \E fn \in ClientSenders, outcome \in FetchOutcomes : SenderCall(fn, outcome)
    \/ \E t \in D1Instants : Advance(t)

SpecTransport == Init /\ [][NextTransport]_vars

\* C31: every client-side tracking function completes without raising to its
\* caller when the network request fails or the server answers with a
\* non-success status.
C31_SendersNeverRaise ==
    (lastReq.op = "send" /\ ~ResponseOk(lastReq.outcome)) => ~lastResp.raised

\* getSessionId ran and changed what is stored.
StorageStep == storage' # storage

\* C32: getSessionId returns the stored token unchanged when the stored
\* timestamp is at most 30 minutes old and stores a new token when it is
\* older, so that whenever the server would treat the token as expired (more
\* than 30 minutes since the session's start, the first request under the
\* token) the client has also regenerated it.
C32_ClientExpiryMirrorsServer ==
    [][/\ StorageStep =>
              IF storage.sessionId # NoToken /\ now - storage.sessionStart <= SESSION_TIMEOUT
              THEN storage'.sessionId = storage.sessionId
              ELSE storage'.sessionId = minted + 1
       /\ \A i, j \in DOMAIN sent' :
              sent'[i].token = sent'[j].token =>
                  sent'[j].at - sent'[i].at <= SESSION_WINDOW]_vars

(***************************************************************************)
(* Track route, GET: concurrent requests.  Each request runs the           *)
(* statements of the handler in order; requests interleave between         *)
(* statements (each await db...run() / first()).                           *)
(***************************************************************************)
\* Mutant of IncrementedCount: the handler adds 1 to the value its SELECT read.
IncrementedCount_FromObserved(stored, observed) == observed + 1

\* SET page_count = page_count + 1: evaluated by the database inside the
\* UPDATE statement, on the stored value.
IncrementedCount(stored, observed) == stored + 1

\* The handler run of request r moves to the given position with new locals.
Moved(r, run) == [inflight EXCEPT ![r] = run]

\* A page-view request arrives and its handler starts.
RaceArrive(query, cookie, page, ua) ==
    /\ reqs < MaxReqs
    /\ reqs' = reqs + 1
    /\ inflight' = Append(inflight,
           [pc |-> IF Or(query, cookie) # NoToken THEN "select" ELSE "count",
            sessionId |-> Or(query, cookie), cookie |-> cookie, page |-> page, ua |-> ua,
            page_count |-> NULL, isReturning |-> FALSE, reused |-> FALSE, id |-> NoToken,
            soloReturning |-> previousSessions(sessions, Or(query, cookie),
                                               getBrowser(ua), getDevice(ua), now) > 0])
    /\ UNCHANGED <<now, minted, trackTables, d1Tables, libTables, lastReq, lastResp, clientVars>>

\* SELECT session_id, start_time, page_count, is_returning FROM sessions WHERE ...
RaceSelect(r) ==
    /\ inflight[r].pc = "select"
    /\ inflight' = Moved(r,
           IF existingSession(sessions, inflight[r].sessionId, now)
           THEN [inflight[r] EXCEPT !.pc = "update", !.reused = TRUE,
                                    !.page_count = sessions[inflight[r].sessionId].page_count]
           ELSE [inflight[r] EXCEPT !.pc = "count"])
    /\ UNCHANGED <<now, minted, reqs, trackTables, d1Tables, libTables, lastReq, lastResp, clientVars>>

\* UPDATE sessions SET page_count = page_count + 1, is_bounce = 0, ...
RaceUpdate(r) ==
    LET sid == inflight[r].sessionId IN
    /\ inflight[r].pc = "update"
    /\ sessions' = [sessions EXCEPT ![sid] =
           [ReusedRow(@, now) EXCEPT !.page_count =
                IncrementedCount(sessions[sid].page_count, inflight[r].page_count)]]
    /\ inflight' = Moved(r, [inflight[r] EXCEPT !.pc = "insert_pageview", !.id = sid])
    /\ UNCHANGED <<now, minted, reqs, pageviews, events, d1Tables, libTables, lastReq, lastResp, clientVars>>

\* SELECT COUNT(*) as count FROM sessions WHERE start_time > ... (previous sessions)
RaceCount(r) ==
    /\ inflight[r].pc = "count"
    /\ inflight' = Moved(r,
           [inflight[r] EXCEPT !.pc = "insert",
               !.isReturning = previousSessions(sessions, inflight[r].sessionId,
                                                getBrowser(inflight[r].ua),
                                                getDevice(inflight[r].ua), now) > 0])
    /\ UNCHANGED <<now, minted, reqs, trackTables, d1Tables, libTables, lastReq, lastResp, clientVars>>

\* crypto.randomUUID(); INSERT INTO sessions (...)
RaceInsert(r) ==
    /\ inflight[r].pc = "insert"
    /\ minted' = minted + 1
    /\ sessions' = InsertSession(sessions, minted + 1,
                                 NewSessionRow(inflight[r].isReturning, inflight[r].ua, now))
    /\ inflight' = Moved(r, [inflight[r] EXCEPT !.pc = "insert_pageview", !.id = minted + 1])
    /\ UNCHANGED <<now, reqs, pageviews, events, d1Tables, libTables, lastReq, lastResp, clientVars>>

\* INSERT INTO pageviews (...)
RaceInsertPageview(r) ==
    /\ inflight[r].pc = "insert_pageview"
    /\ pageviews' = Append(pageviews, NewPageviewRow(inflight[r].id, pagePathOf(inflight[r].page),
                                                     inflight[r].cookie, now))
    /\ inflight' = Moved(r, [inflight[r] EXCEPT !.pc =
                                 IF inflight[r].cookie # NoToken THEN "clear_exit" ELSE "done"])
    /\ UNCHANGED <<now, minted, reqs, sessions, events, d1Tables, libTables, lastReq, lastResp, clientVars>>

\* UPDATE pageviews SET exit_page = 0 WHERE session_id = ? AND exit_page = 1
RaceClearExit(r) ==
    /\ inflight[r].pc = "clear_exit"
    /\ pageviews' = ClearExit(pageviews, inflight[r].id)
    /\ inflight' = Moved(r, [inflight[r] EXCEPT !.pc = "update_session"])
    /\ UNCHANGED <<now, minted, reqs, sessions, events, d1Tables, libTables, lastReq, lastResp, clientVars>>

\* UPDATE sessions SET is_bounce = 0, end_time = ..., then the response.
RaceUpdateSession(r) ==
    /\ inflight[r].pc = "update_session"
    /\ sessions' = [sessions EXCEPT ![inflight[r].id] = EngagedRow(@, now)]
    /\ inflight' = Moved(r, [inflight[r] EXCEPT !.pc = "done"])
    /\ UNCHANGED <<now, minted, reqs, pageviews, events, d1Tables, libTables, lastReq, lastResp, clientVars>>

RaceInstants == {60}

\* The cookies of the concurrent requests: none, or a token handed out before.
RaceCookies == {NoToken} \cup (1 .. minted)

NextRace ==
    \/ \E cookie \in RaceCookies, p \in PageParams :
          RaceArrive(NoToken, cookie, p, MetricsUA)
    \/ \E r \in DOMAIN inflight : RaceSelect(r)
    \/ \E r \in DOMAIN inflight : RaceUpdate(r)
    \/ \E r \in DOMAIN inflight : RaceCount(r)
    \/ \E r \in DOMAIN inflight : RaceInsert(r)
    \/ \E r \in DOMAIN inflight : RaceInsertPageview(r)
    \/ \E r \in DOMAIN inflight : RaceClearExit(r)
    \/ \E r \in DOMAIN inflight : RaceUpdateSession(r)
    \/ \E t \in RaceInstants : Advance(t)

SpecRace == Init /\ [][NextRace]_vars

\* The requests that have executed the reuse UPDATE on session x.
UpdatersOf(x) ==
    { r \in DOMAIN inflight : inflight[r].reused /\ inflight[r].id = x }

\* C33 (as stated): when two requests with the same valid token both read
\* page_count before either wrote it, both increments start from the same
\* base value and page_count ends only 1 above it (a lost update).
C33_LostUpdate ==
    \A r1, r2 \in DOMAIN inflight :
        (/\ r1 # r2
         /\ inflight[r1].id # NoToken
         /\ r1 \in UpdatersOf(inflight[r2].id)
         /\ r2 \in UpdatersOf(inflight[r1].id)
         /\ inflight[r1].page_count = inflight[r2].page_count
         /\ Cardinality(UpdatersOf(inflight[r1].id)) = 2)
        => sessions[inflight[r1].id].page_count = inflight[r1].page_count + 1

\* C33 (amended): under every interleaving each request that reuses a session
\* adds 1 to its stored page_count: the count is 1 plus the number of reuse
\* updates executed, also when two requests read the same base value.
C33_NoLostUpdate ==
    \A x \in DOMAIN sessions :
        sessions[x].page_count = 1 + Cardinality(UpdatersOf(x))

\* C33 witness: two requests read the same page_count of one session and both
\* executed their update.
C33_Witness ==
    \E r1, r2 \in DOMAIN inflight :
        /\ r1 # r2
        /\ inflight[r1].reused /\ inflight[r2].reused
        /\ inflight[r1].id # NoToken
        /\ inflight[r1].id = inflight[r2].id
        /\ inflight[r1].page_count = inflight[r2].page_count
        /\ sessions[inflight[r1].id].page_count = inflight[r1].page_count + 2

\* C34: requests for different sessions do not interact: the session row a
\* request inserts (its is_returning classification included) is the one it
\* would insert if no other request ran while it was being served.
C34_SessionsDoNotInteract ==
    \A r \in DOMAIN inflight :
        (inflight[r].id # NoToken /\ ~inflight[r].reused) =>
            sessions[inflight[r].id].is_returning = inflight[r].soloReturning

(***************************************************************************)
(* The batch endpoint: POST starts one Analytics.handleTracking call per   *)
(* event (Promise.all over body.events.map).  The calls interleave between *)
(* their storage statements.                                               *)
(***************************************************************************)
\* The batches of the model: the one the hook sends on first page load, and
\* one that starts the session twice.
FirstLoadBatch == << [event |-> "session_start", page |-> ""],
                     [event |-> "pageview", page |-> "/"] >>
Batches == { FirstLoadBatch,
             << [event |-> "session_start", page |-> ""],
                [event |-> "session_start", page |-> ""] >> }
BatchTokens == {1}
MaxBatches == 2

\* The number of batch requests received so far.
BatchesSoFar == Cardinality({ inflight[c].batch : c \in DOMAIN inflight })

\* The TrackingData of a call: { sessionId, ...event, timestamp: Date.now(), ... }
CallData(call) ==
    [sessionId |-> call.sessionId, event |-> call.event, page |-> call.page,
     timeSpent |-> 0, perf |-> NoPerf, scrollDepth |-> "", element |-> "", href |-> "",
     deviceType |-> "desktop", timestamp |-> call.timestamp]

\* POST: the session id header is present, the body is an events array; one
\* handleTracking call per event is started.
BatchArrive(token, batch) ==
    /\ BatchesSoFar < MaxBatches
    /\ inflight' = inflight \o
           [i \in DOMAIN batch |->
               [batch |-> BatchesSoFar + 1, event |-> batch[i].event, page |-> batch[i].page,
                sessionId |-> token, timestamp |-> now * MS_PER_S, pc |-> "select",
                existing |-> FALSE, error |-> "", answered |-> FALSE,
                fresh |-> token \notin DOMAIN d1_sessions]]
    /\ UNCHANGED <<now, minted, reqs, trackTables, d1Tables, libTables, lastReq, lastResp, clientVars>>

\* SELECT * FROM sessions WHERE session_id = ?, and the branch taken on it.
CallSelect(c) ==
    LET call == inflight[c]
        existing == call.sessionId \in DOMAIN d1_sessions
    IN
    /\ call.pc = "select"
    /\ inflight' = Moved(c,
           IF InvalidSession(existing, call.event)
           THEN [call EXCEPT !.pc = "failed", !.error = "Invalid session"]
           ELSE IF call.event = "session_start"
           THEN [call EXCEPT !.existing = existing,
                             !.pc = IF existing THEN "done" ELSE "insert_session"]
           ELSE [call EXCEPT !.existing = existing, !.pc = "insert_page_view"])
    /\ UNCHANGED <<now, minted, reqs, trackTables, d1Tables, libTables, lastReq, lastResp, clientVars>>

\* INSERT INTO sessions (...): session_id is the PRIMARY KEY, a second row
\* for the id is rejected by the database.
CallInsertSession(c) ==
    LET call == inflight[c] IN
    /\ call.pc = "insert_session"
    /\ IF call.sessionId \in DOMAIN d1_sessions
       THEN /\ inflight' = Moved(c, [call EXCEPT !.pc = "failed", !.error = StorageError])
            /\ UNCHANGED d1_sessions
       ELSE /\ inflight' = Moved(c, [call EXCEPT !.pc = "done"])
            /\ d1_sessions' = InsertSession(d1_sessions, call.sessionId,
                                            D1SessionRow(CallData(call), call.timestamp))
    /\ UNCHANGED <<now, minted, reqs, trackTables, page_views, d1_events, libTables, lastReq, lastResp, clientVars>>

\* INSERT INTO page_views (...)
CallInsertPageView(c) ==
    LET call == inflight[c] IN
    /\ call.pc = "insert_page_view"
    /\ page_views' = Append(page_views, D1PageViewRow(CallData(call), call.timestamp))
    /\ inflight' = Moved(c, [call EXCEPT !.pc = "insert_event"])
    /\ UNCHANGED <<now, minted, reqs, trackTables, d1_sessions, d1_events, libTables, lastReq, lastResp, clientVars>>

\* INSERT INTO events (...)
CallInsertEvent(c) ==
    LET call == inflight[c] IN
    /\ call.pc = "insert_event"
    /\ d1_events' = D1EventStep(d1_events, CallData(call), call.timestamp)
    /\ inflight' = Moved(c, [call EXCEPT !.pc = "done"])
    /\ UNCHANGED <<now, minted, reqs, trackTables, d1_sessions, page_views, libTables, lastReq, lastResp, clientVars>>

CallsOf(b) == { c \in DOMAIN inflight : inflight[c].batch = b }

\* await Promise.all(...) settles: with the error of a call that failed, or
\* with the results once every call returned; then the route answers.
BatchRespond(b, c) ==
    /\ c \in CallsOf(b)
    /\ ~inflight[c].answered
    /\ \/ inflight[c].pc = "failed"
       \/ \A d \in CallsOf(b) : inflight[d].pc = "done"
    /\ lastReq' = [op |-> "batch", sessionId |-> inflight[c].sessionId, batch |-> b,
                   events |-> [d \in CallsOf(b) |-> inflight[d].event],
                   fresh |-> inflight[c].fresh]
    /\ lastResp' = Answer(inflight[c].error)
    /\ inflight' = [d \in DOMAIN inflight |->
                       IF d \in CallsOf(b) THEN [inflight[d] EXCEPT !.answered = TRUE]
                       ELSE inflight[d]]
    /\ UNCHANGED <<now, minted, reqs, trackTables, d1Tables, libTables, clientVars>>

NextBatch ==
    \/ \E token \in BatchTokens, batch \in Batches : BatchArrive(token, batch)
    \/ \E c \in DOMAIN inflight : CallSelect(c)
    \/ \E c \in DOMAIN inflight : CallInsertSession(c)
    \/ \E c \in DOMAIN inflight : CallInsertPageView(c)
    \/ \E c \in DOMAIN inflight : CallInsertEvent(c)
    \/ \E c \in DOMAIN inflight : BatchRespond(inflight[c].batch, c)
    \/ \E t \in D1Instants : Advance(t)

SpecBatch == Init /\ [][NextBatch]_vars

\* The calls of a [session_start, pageview] batch whose token had no session
\* when the batch arrived.
FirstLoadCalls ==
    { c \in DOMAIN inflight :
        /\ inflight[c].fresh
        /\ \E d \in CallsOf(inflight[c].batch) : inflight[d].event = "pageview" }

\* C35: the batch [session_start, pageview] for a token without session is
\* answered 200 and leaves one session row and one page-view row for the
\* token under every interleaving of its two handleTracking calls; the
\* pageview call never fails with 'Invalid session'.
C35_FirstLoadBatchSucceeds ==
    \A c \in FirstLoadCalls :
        /\ inflight[c].error # "Invalid session"
        /\ (inflight[c].answered /\ lastReq.op = "batch" /\ lastReq.batch = inflight[c].batch)
               => lastResp.status = 200
        /\ (\A d \in CallsOf(inflight[c].batch) : inflight[d].pc \in {"done", "failed"})
               => /\ inflight[c].sessionId \in DOMAIN d1_sessions
                  /\ \E i \in DOMAIN page_views :
                         page_views[i].session_id = inflight[c].sessionId

\* C36: two concurrent session_start calls for the same token that has no
\* session yet, both of which read 'no existing session', both complete
\* without error and leave exactly one session row for the token.
C36_ConcurrentSessionStarts ==
    \A c, d \in DOMAIN inflight :
        (/\ c # d
         /\ inflight[c].event = "session_start" /\ inflight[d].event = "session_start"
         /\ inflight[c].sessionId = inflight[d].sessionId
         /\ inflight[c].pc \in {"done", "failed"} /\ inflight[d].pc \in {"done", "failed"}
         /\ ~inflight[c].existing /\ ~inflight[d].existing)
        => /\ inflight[c].error = "" /\ inflight[d].error = ""
           /\ inflight[c].sessionId \in DOMAIN d1_sessions

\* A page-view request presents the token of a stored session whose previous
\* request (its end_time) is less than 30 minutes old.
PageviewWithinInactivityWindow ==
    /\ lastReq'.op = "GET"
    /\ reqs' = reqs + 1
    /\ Or(lastReq'.query, lastReq'.cookie) \in DOMAIN sessions
    /\ now - sessions[Or(lastReq'.query, lastReq'.cookie)].end_time < SESSION_WINDOW

\* C37: a page-view presenting a session's token within 30 minutes of the
\* previous request for that session is recorded against that session, even
\* when more than 30 minutes have passed since the session's start time.
C37_SlidingSessionWindow ==
    [][PageviewWithinInactivityWindow =>
          /\ lastResp'.session_id = Or(lastReq'.query, lastReq'.cookie)
          /\ pageviews'[Len(pageviews')].session_id = Or(lastReq'.query, lastReq'.cookie)]_vars

\* C38: for one page load the capture client never sends both a bounce event
\* and a user_engaged event.
C38_BounceExcludesEngaged ==
    SentOf(sent, "bounce") = {} \/ SentOf(sent, "user_engaged") = {}

(***************************************************************************)
(* useAnalytics: performance reporting.  updateMetrics collects metrics    *)
(* and flushes them after 1 s to a sender debounced by 2 s.                *)
(***************************************************************************)
FLUSH_DELAY == 1
PERFORMANCE_DEBOUNCE == 2

\* The metrics the performance observers report, each once per page load.
PerfMetrics == {"ttfb", "lcp", "fid"}

\* The seconds of a page load the model follows; metrics are observed early
\* enough for every timer they start to fire within them.
PerfHorizon == 8
LastObservation == PerfHorizon - 2 * (FLUSH_DELAY + PERFORMANCE_DEBOUNCE)

\* updateMetrics(newMetrics): merge into the pending set, restart the flush timer.
UpdateMetrics(metric) ==
    /\ hook.loaded
    /\ metric \notin hook.observed
    /\ now <= LastObservation
    /\ hook' = [hook EXCEPT !.pendingMetrics = @ \cup {metric},
                            !.timeoutId = now + FLUSH_DELAY,
                            !.observed = @ \cup {metric}]
    /\ UNCHANGED <<now, minted, storage, sent, serverVars>>

\* The flush timer: debouncedTrackPerformance(pendingMetrics.current.metrics),
\* then pendingMetrics.current = { metrics: {} }.  A call of the debounced
\* function replaces the arguments of a call still waiting and restarts its wait.
FlushTimer ==
    /\ hook.loaded
    /\ hook.timeoutId = now
    /\ hook' = [hook EXCEPT !.debouncedArgs = hook.pendingMetrics,
                            !.debouncedAt = now + PERFORMANCE_DEBOUNCE,
                            !.pendingMetrics = {},
                            !.timeoutId = NULL]
    /\ UNCHANGED <<now, minted, storage, sent, serverVars>>

\* batchTrack([{ event: 'performance', ...metrics }])
batchTrackPerformance(w, t, metrics) ==
    LET w1 == getSessionId(w, t)
    IN [w1 EXCEPT !.sent = Append(@, Message(w1.storage.sessionId, "performance", 0, "",
                                            metrics, t))]

\* The debounce wait ends: the body of debouncedTrackPerformance runs with
\* the arguments of the latest call.
DebounceTimer ==
    /\ hook.loaded
    /\ hook.debouncedAt = now
    /\ LET w1 == getSessionId(World, now)
           w2 == IF hook.debouncedArgs # {}
                 THEN batchTrackPerformance(w1, now, hook.debouncedArgs) ELSE w1
       IN Commit([w2 EXCEPT !.hook.debouncedArgs = {}, !.hook.debouncedAt = NULL])
    /\ UNCHANGED <<now, serverVars>>

\* A second passes; a timer that is due fires first.
PerfTick ==
    /\ now < PerfHorizon
    /\ hook.loaded => /\ hook.timeoutId # now
                      /\ hook.debouncedAt # now
    /\ Advance(now + 1)

NextPerf ==
    \/ \E path \in ClientPages : PageLoad(path)
    \/ \E metric \in PerfMetrics : UpdateMetrics(metric)
    \/ FlushTimer
    \/ DebounceTimer
    \/ PerfTick

SpecPerf == Init /\ [][NextPerf]_vars

\* The page stays open and its timers fire.
SpecPerfLive ==
    /\ SpecPerf
    /\ WF_vars(FlushTimer)
    /\ WF_vars(DebounceTimer)
    /\ WF_vars(PerfTick)

\* The metrics handed to batchTrack in performance events so far.
Delivered == UNION { sent[i].metrics : i \in DOMAIN sent }

\* C39: every performance metric passed to updateMetrics is eventually
\* included in some performance event handed to batchTrack, provided the
\* page stays open long enough for the timers to fire.
C39_MetricsEventuallySent ==
    \A metric \in PerfMetrics :
        (metric \in hook.observed) ~> (metric \in Delivered)

\* ---------------------------------------------------------------------------
\* Scroll-depth reports reaching the D1 recorder through GET /api/analytics/tracking
\* ---------------------------------------------------------------------------

\* The depths trackScroll reports, as the header text track() sends.
ScrollReports == {"25", "75"}

\* The data the GET handler of tracking/route.ts builds from the headers that
\* track({ scrollDepth }) sets: x-session-id and x-scroll-depth only, so the
\* event and the page are absent.
ScrollReportData(token, depth) ==
    [sessionId |-> token, event |-> "", page |-> "", timeSpent |-> 0,
     perf |-> NoPerf, scrollDepth |-> depth, element |-> "", href |-> "",
     deviceType |-> "desktop", timestamp |-> 0]

\* The requests of one visitor: the session start, page views that may carry
\* a depth of their own, and the scroll reports of trackScroll.
D1ScrollRequests ==
    [sessionId : {1}, event : {"session_start", "pageview"}, page : D1Pages,
     timeSpent : {0}, perf : {NoPerf}, scrollDepth : {""} \cup ScrollReports,
     element : {""}, href : {""}, deviceType : {"desktop"}, timestamp : {0}]
    \cup {ScrollReportData(1, depth) : depth \in ScrollReports}

NextD1Scroll ==
    \/ \E data \in D1ScrollRequests, pick1 \in 0 .. MaxReqs, pick2 \in 0 .. MaxReqs :
          D1HandleTracking(data, pick1, pick2)
    \/ \E t \in D1Instants : Advance(t)

SpecD1Scroll == Init /\ [][NextD1Scroll]_vars

\* A step in which the recorder answers 200 to a scroll report of trackScroll
\* for a session it already holds.
ScrollReportStep ==
    /\ lastReq'.op = "d1"
    /\ reqs' = reqs + 1
    /\ lastReq'.event = "" /\ lastReq'.page = ""
    /\ lastReq'.scrollDepth \in ScrollReports
    /\ lastReq'.sessionId \in DOMAIN d1_sessions
    /\ lastResp'.status = 200

\* C40: after a scroll report of trackScroll for an existing session is
\* answered 200, storage holds a new event row of that session or a page view
\* of that session whose scroll depth was set to the reported depth.
C40_ScrollReportIsStored ==
    [][ScrollReportStep =>
         \/ /\ Len(d1_events') > Len(d1_events)
            /\ d1_events'[Len(d1_events')].session_id = lastReq'.sessionId
         \/ \E i \in 1 .. Len(page_views') :
               /\ page_views'[i].session_id = lastReq'.sessionId
               /\ page_views'[i].scroll_depth = parseScroll(lastReq'.scrollDepth)
               /\ \/ i > Len(page_views)
                  \/ page_views[i].scroll_depth # page_views'[i].scroll_depth]_vars
====
